---- MODULE Spec2Model ----
(***************************************************************************)
(* odata2orm: the OData $filter compiler (convert, the node lowering       *)
(* engine, the OR-to-IN optimizer and the regex fallback grammar).         *)
(*                                                                         *)
(* Values of the target filter object are JSON-like and carry a tag t:     *)
(*   obj  : e = sequence of entries [k, v] in insertion order              *)
(*   arr  : a = sequence of values                                         *)
(*   str  : s = sequence of characters                                     *)
(*   num  : n / d, a rational in lowest terms with d > 0                   *)
(*   bool : b                                                              *)
(*   null                                                                  *)
(*   date : a JavaScript Date object; ms is its instant, a UTC midnight    *)
(*          <<year, month, day>>, id its object identity (two Date objects *)
(*          of one instant are two objects)                                *)
(***************************************************************************)
EXTENDS Integers, Sequences, FiniteSets, TLC

VARIABLES
  pc,            \* position of the running operation
  filterString,  \* the filter string given to convert (a sequence of tokens)
  options,       \* ConversionOptions: [caseSensitive |-> "unset" | "true" | "false"]
  preprocessed,  \* what preprocessODataFilter returned
  ast,           \* the AST the primary parser returned
  lowered,       \* what convertNode returned (before the optimizer)
  result,        \* what convert returned
  caught,        \* the error caught by convert's outer catch
  thrown,        \* the errors convert threw to its caller, in order
  steps,         \* the steps convert has taken so far, in order
  stack,         \* filter objects under construction (optimizer harness)
  where,         \* the filter object handed to optimizeOrToIn
  opt1,          \* optimizeOrToIn(where)
  opt2,          \* optimizeOrToIn(opt1)
  builder,       \* the PrismaQueryBuilder: its schemaOptions, enableNestedQueries, adapter options
  params,        \* the ODataQueryParams handed to buildQuery
  query,         \* the query object buildQuery is filling
  calls          \* the calls of convert that have returned or thrown, in order

vars == <<pc, filterString, options, preprocessed, ast, lowered, result, caught,
          thrown, steps, stack, where, opt1, opt2, builder, params, query,
          calls>>

convertVars ==
  <<filterString, options, preprocessed, ast, lowered, result, caught, thrown, steps>>
optimizerVars == <<stack, where, opt1, opt2>>
builderVars == <<builder, params, query>>

-----------------------------------------------------------------------------
(* JSON values *)

Nil == [t |-> "nil"]

Obj(entries) == [t |-> "obj", e |-> entries]
Arr(items) == [t |-> "arr", a |-> items]
Str(chars) == [t |-> "str", s |-> chars]
Num(k) == [t |-> "num", n |-> k, d |-> 1]
Bool(v) == [t |-> "bool", b |-> v]
Null == [t |-> "null"]
Date(instant, ident) == [t |-> "date", ms |-> instant, id |-> ident]

Entry(key, val) == [k |-> key, v |-> val]
Obj1(key, val) == Obj(<<Entry(key, val)>>)
Obj2(k1, v1, k2, v2) == Obj(<<Entry(k1, v1), Entry(k2, v2)>>)
EmptyObj == Obj(<<>>)

IsObj(x) == x.t = "obj"
IsArr(x) == x.t = "arr"

\* JavaScript truthiness
Truthy(x) ==
  CASE x.t \in {"null", "undefined"} -> FALSE
    [] x.t = "bool" -> x.b
    [] x.t = "num" -> x.n # 0
    [] x.t = "str" -> x.s # <<>>
    [] OTHER -> TRUE

\* typeof x === 'object'
TypeofObject(x) == x.t \in {"obj", "arr", "date", "null"}

HasKey(o, key) == IsObj(o) /\ \E i \in 1..Len(o.e) : o.e[i].k = key

\* o[key] for a key the object has
Get(o, key) == o.e[CHOOSE i \in 1..Len(o.e) : o.e[i].k = key].v

Keys(o) == [i \in 1..Len(o.e) |-> o.e[i].k]

IndexKeys == <<"0", "1", "2", "3", "4", "5", "6", "7">>

\* Object.entries(x): own enumerable properties; a Date has none
Entries(x) ==
  CASE x.t = "obj" -> x.e
    [] x.t = "arr" -> [i \in 1..Len(x.a) |-> Entry(IndexKeys[i], x.a[i])]
    [] OTHER -> <<>>

-----------------------------------------------------------------------------
(* src/utils/optimizer.ts *)

\* SameValueZero, the equality of Set: primitives by value, objects by identity
SameValueZero(x, y) ==
  IF x.t \in {"obj", "arr"} \/ y.t \in {"obj", "arr"} THEN FALSE ELSE x = y

\* [...new Set(values)]
RECURSIVE SetSpread(_)
SetSpread(values) ==
  IF values = <<>> THEN <<>>
  ELSE LET front == SetSpread(SubSeq(values, 1, Len(values) - 1))
           last == values[Len(values)]
       IN IF \E i \in 1..Len(front) : SameValueZero(front[i], last)
          THEN front ELSE Append(front, last)

collectOneLevel(conditions) == conditions

RECURSIVE collectConditions(_)
collectConditions(conditions) ==
  IF conditions = <<>> THEN <<>>
  ELSE LET condition == Head(conditions)
       IN (IF HasKey(condition, "OR") /\ IsArr(Get(condition, "OR"))
           THEN collectConditions(Get(condition, "OR").a)
           ELSE <<condition>>)
          \o collectConditions(Tail(conditions))

\* fieldValues[field].push(...vals), fieldValues kept as entries in insertion order
PushValues(fieldValues, field, vals) ==
  IF \E i \in 1..Len(fieldValues) : fieldValues[i].k = field
  THEN [i \in 1..Len(fieldValues) |->
          IF fieldValues[i].k = field
          THEN Entry(field, fieldValues[i].v \o vals) ELSE fieldValues[i]]
  ELSE Append(fieldValues, Entry(field, vals))

\* the loop over allConditions; Nil is the early "return null"
RECURSIVE collectFieldValues(_, _)
collectFieldValues(allConditions, fieldValues) ==
  IF allConditions = <<>> THEN Obj(fieldValues)
  ELSE LET condition == Head(allConditions)
           entries == Entries(condition)
       IN IF Len(entries) # 1 THEN Nil
          ELSE LET field == entries[1].k
                   value == entries[1].v
               IN IF Truthy(value) /\ TypeofObject(value) /\ HasKey(value, "equals")
                  THEN collectFieldValues(Tail(allConditions),
                         PushValues(fieldValues, field, <<Get(value, "equals")>>))
                  ELSE IF Truthy(value) /\ TypeofObject(value) /\ HasKey(value, "in")
                            /\ IsArr(Get(value, "in"))
                  THEN collectFieldValues(Tail(allConditions),
                         PushValues(fieldValues, field, Get(value, "in").a))
                  ELSE Nil

\* returns [field, values] or Nil
flattenOrConditions(orClause) ==
  LET fieldValues == collectFieldValues(collectConditions(orClause), <<>>)
  IN IF fieldValues = Nil THEN Nil
     ELSE IF Len(fieldValues.e) = 1
          THEN [field |-> fieldValues.e[1].k, values |-> SetSpread(fieldValues.e[1].v)]
          ELSE Nil

RECURSIVE optimizeOrToIn(_)
optimizeOrToIn(whereClause) ==
  IF ~Truthy(whereClause) \/ ~TypeofObject(whereClause) THEN whereClause
  ELSE LET flattened ==
             IF HasKey(whereClause, "OR") /\ IsArr(Get(whereClause, "OR"))
             THEN flattenOrConditions(Get(whereClause, "OR").a) ELSE Nil
           entries == Entries(whereClause)
       IN IF flattened # Nil /\ Len(flattened.values) > 1
          THEN Obj1(flattened.field, Obj1("in", Arr(flattened.values)))
          ELSE IF flattened # Nil /\ Len(flattened.values) = 1
          THEN Obj1(flattened.field, Obj1("equals", flattened.values[1]))
          ELSE Obj([i \in 1..Len(entries) |->
                 LET value == entries[i].v
                 IN Entry(entries[i].k,
                      IF IsArr(value)
                      THEN Arr([j \in 1..Len(value.a) |-> optimizeOrToIn(value.a[j])])
                      ELSE IF Truthy(value) /\ TypeofObject(value)
                      THEN optimizeOrToIn(value)
                      ELSE value)])

-----------------------------------------------------------------------------
(* Optimizer harness: filter objects of the shape the lowering engine      *)
(* produces (single-key objects, AND/OR lists of two members, NOT of one   *)
(* object) are built bottom-up on a stack and handed to optimizeOrToIn.    *)

MaxLeaves == 3

FieldNames == {"a", "b"}

\* two Date objects of one instant, as two literals of one date produce
DateA1 == Date(<<2023, 1, 1>>, <<1, 0>>)
DateA2 == Date(<<2023, 1, 1>>, <<2, 0>>)

OptLeaves ==
  { Obj1("a", Obj1("equals", Num(1))),
    Obj1("a", Obj1("equals", DateA1)),
    Obj1("a", Obj1("in", Arr(<<Num(2), DateA2>>))),
    Obj1("b", Obj1("equals", Num(1))),
    Obj1("a", Null),
    Obj1("a", Obj2("equals", Num(3), "mode", Str(<<"insensitive">>))) }

InitIdleBuilder ==
  /\ builder = Nil
  /\ params = Nil
  /\ query = Nil

InitIdleConvert ==
  /\ filterString = <<>>
  /\ options = [caseSensitive |-> "unset"]
  /\ preprocessed = Nil
  /\ ast = Nil
  /\ lowered = Nil
  /\ result = Nil
  /\ caught = Nil
  /\ thrown = <<>>
  /\ steps = <<>>

InitOptimize ==
  /\ pc = "build"
  /\ InitIdleConvert
  /\ stack = <<>>
  /\ where = Nil
  /\ opt1 = Nil
  /\ opt2 = Nil
  /\ InitIdleBuilder
  /\ calls = <<>>

RECURSIVE LeafCount(_)
LeafCount(x) ==
  IF HasKey(x, "OR") THEN LeafCount(Get(x, "OR").a[1]) + LeafCount(Get(x, "OR").a[2])
  ELSE IF HasKey(x, "AND") THEN LeafCount(Get(x, "AND").a[1]) + LeafCount(Get(x, "AND").a[2])
  ELSE IF HasKey(x, "NOT") THEN LeafCount(Get(x, "NOT"))
  ELSE 1

\* whether a NOT node occurs in x
RECURSIVE HasNot(_)
HasNot(x) ==
  IF HasKey(x, "OR") THEN HasNot(Get(x, "OR").a[1]) \/ HasNot(Get(x, "OR").a[2])
  ELSE IF HasKey(x, "AND") THEN HasNot(Get(x, "AND").a[1]) \/ HasNot(Get(x, "AND").a[2])
  ELSE HasKey(x, "NOT")

RECURSIVE StackLeaves(_)
StackLeaves(s) == IF s = <<>> THEN 0 ELSE LeafCount(Head(s)) + StackLeaves(Tail(s))

PushLeaf(leaf) ==
  /\ pc = "build"
  /\ StackLeaves(stack) < MaxLeaves
  /\ stack' = Append(stack, leaf)
  /\ UNCHANGED <<pc, where, opt1, opt2>>
  /\ UNCHANGED <<convertVars, builderVars, calls>>

Combine(key) ==
  /\ pc = "build"
  /\ Len(stack) >= 2
  /\ LET n == Len(stack)
     IN stack' = Append(SubSeq(stack, 1, n - 2),
                        Obj1(key, Arr(<<stack[n - 1], stack[n]>>)))
  /\ UNCHANGED <<pc, where, opt1, opt2>>
  /\ UNCHANGED <<convertVars, builderVars, calls>>

MkOr == Combine("OR")
MkAnd == Combine("AND")

MkNot ==
  /\ pc = "build"
  /\ Len(stack) = 1
  /\ ~HasNot(stack[1])
  /\ stack' = <<Obj1("NOT", stack[1])>>
  /\ UNCHANGED <<pc, where, opt1, opt2>>
  /\ UNCHANGED <<convertVars, builderVars, calls>>

Optimize ==
  /\ pc = "build"
  /\ Len(stack) = 1
  /\ where' = stack[1]
  /\ opt1' = optimizeOrToIn(stack[1])
  /\ pc' = "optimized"
  /\ UNCHANGED <<stack, opt2>>
  /\ UNCHANGED <<convertVars, builderVars, calls>>

OptimizeAgain ==
  /\ pc = "optimized"
  /\ opt2' = optimizeOrToIn(opt1)
  /\ pc' = "reoptimized"
  /\ UNCHANGED <<stack, where, opt1>>
  /\ UNCHANGED <<convertVars, builderVars, calls>>

NextOptimize ==
  \/ \E leaf \in OptLeaves : PushLeaf(leaf)
  \/ MkOr
  \/ MkAnd
  \/ MkNot
  \/ Optimize
  \/ OptimizeAgain

SpecOptimize == InitOptimize /\ [][NextOptimize]_vars

-----------------------------------------------------------------------------
(* What a filter object means: the records it matches.  A record gives     *)
(* each field a value; equals is equality, in is membership, AND/OR/NOT    *)
(* have their boolean meaning.  Two dates are equal when their instants    *)
(* are.                                                                    *)

RecordValues == {Num(1), Num(2), Num(3), Date(<<2023, 1, 1>>, <<0, 0>>)}
Records == [FieldNames -> RecordValues]

ValEq(x, y) ==
  IF x.t = "date" /\ y.t = "date" THEN x.ms = y.ms ELSE x = y

NumLess(x, y) == x.t = "num" /\ y.t = "num" /\ x.n * y.d < y.n * x.d

OpMatches(rv, op, operand) ==
  CASE op = "equals" -> ValEq(rv, operand)
    [] op = "in" -> IsArr(operand) /\ \E i \in 1..Len(operand.a) : ValEq(rv, operand.a[i])
    [] op = "not" -> ~ValEq(rv, operand)
    [] op = "gt" -> NumLess(operand, rv)
    [] op = "gte" -> NumLess(operand, rv) \/ ValEq(rv, operand)
    [] op = "lt" -> NumLess(rv, operand)
    [] op = "lte" -> NumLess(rv, operand) \/ ValEq(rv, operand)
    [] OTHER -> FALSE

FieldMatches(rv, v) ==
  IF IsObj(v)
  THEN \A i \in 1..Len(v.e) : OpMatches(rv, v.e[i].k, v.e[i].v)
  ELSE ValEq(rv, v)

RECURSIVE Matches(_, _)
Matches(r, x) ==
  \A i \in 1..Len(x.e) :
    LET key == x.e[i].k
        v == x.e[i].v
    IN CASE key = "AND" -> \A j \in 1..Len(v.a) : Matches(r, v.a[j])
         [] key = "OR" -> \E j \in 1..Len(v.a) : Matches(r, v.a[j])
         [] key = "NOT" -> ~Matches(r, v)
         [] OTHER -> FieldMatches(r[key], v)

-----------------------------------------------------------------------------
(* Claims about the optimizer *)

\* the leaves of an OR node, nested OR lists flattened to any depth
RECURSIVE OrLeaves(_)
RECURSIVE OrLeavesOfList(_)
OrLeaves(x) ==
  IF HasKey(x, "OR") THEN OrLeavesOfList(Get(x, "OR").a) ELSE <<x>>
OrLeavesOfList(list) ==
  IF list = <<>> THEN <<>> ELSE OrLeaves(Head(list)) \o OrLeavesOfList(Tail(list))

\* a leaf {field: {equals: v}} or {field: {in: [...]}}
IsEqualsOrInLeaf(leaf) ==
  /\ IsObj(leaf) /\ Len(leaf.e) = 1
  /\ IsObj(leaf.e[1].v)
  /\ Keys(leaf.e[1].v) \in {<<"equals">>, <<"in">>}

LeafValues(leaf) ==
  IF Keys(leaf.e[1].v) = <<"equals">>
  THEN <<leaf.e[1].v.e[1].v>> ELSE leaf.e[1].v.e[1].v.a

RECURSIVE ValuesOfLeaves(_)
ValuesOfLeaves(leaves) ==
  IF leaves = <<>> THEN <<>>
  ELSE LeafValues(Head(leaves)) \o ValuesOfLeaves(Tail(leaves))

\* the values in first-occurrence order, later repetitions removed
FirstOccurrences(vals) ==
  LET keep == {i \in 1..Len(vals) : \A j \in 1..(i - 1) : vals[j] # vals[i]}
      RECURSIVE Pick(_)
      Pick(i) == IF i > Len(vals) THEN <<>>
                 ELSE (IF i \in keep THEN <<vals[i]>> ELSE <<>>) \o Pick(i + 1)
  IN Pick(1)

\* x is an OR node all of whose flattened leaves are equals/in checks on one field
IsSameFieldOrNode(x) ==
  /\ IsObj(x) /\ HasKey(x, "OR")
  /\ LET leaves == OrLeaves(x)
     IN /\ \A i \in 1..Len(leaves) : IsEqualsOrInLeaf(leaves[i])
        /\ \A i \in 1..Len(leaves) : leaves[i].e[1].k = leaves[1].e[1].k

ExpectedInOrEquals(x) ==
  LET leaves == OrLeaves(x)
      field == leaves[1].e[1].k
      values == FirstOccurrences(ValuesOfLeaves(leaves))
  IN IF Len(values) > 1 THEN Obj1(field, Obj1("in", Arr(values)))
     ELSE Obj1(field, Obj1("equals", values[1]))

HasExtraKeys(leaf) == IsObj(leaf) /\ Len(leaf.e) = 1 /\ IsObj(leaf.e[1].v) /\ Len(leaf.e[1].v.e) > 1

\* the same for the OR nodes without a leaf of two operator keys
C19_WithoutExtraKeys ==
  (pc # "build" /\ IsObj(where) /\ HasKey(where, "OR") /\ ~IsSameFieldOrNode(where)
     /\ \A i \in 1..Len(OrLeaves(where)) : ~HasExtraKeys(OrLeaves(where)[i])) =>
     opt1 = Obj1("OR", Arr(<<optimizeOrToIn(Get(where, "OR").a[1]),
                             optimizeOrToIn(Get(where, "OR").a[2])>>))

\* C3: optimize does not change which records match.
C3_SameMatches ==
  pc # "build" => \A r \in Records : Matches(r, opt1) = Matches(r, where)

\* C4: optimize(optimize(x)) = optimize(x).
C4_Idempotent ==
  pc = "reoptimized" => opt2 = opt1

-----------------------------------------------------------------------------
(* Results of operations that can throw: Ok(value) or Err(message).  A     *)
(* message is the sequence of the fragments its template concatenates.     *)

Ok(val) == [ok |-> TRUE, v |-> val]
Err(message) == [ok |-> FALSE, msg |-> message]

MsgContains(message, fragment) == \E i \in 1..Len(message) : message[i] = fragment

-----------------------------------------------------------------------------
(* AST nodes of the primary parser: [type, value, raw, position] *)

Literal(rawText, pos) == [type |-> "Literal", raw |-> rawText, position |-> pos]
Identifier(name) == [type |-> "ODataIdentifier", value |-> [name |-> name]]
FieldNode(name) ==
  [type |-> "FirstMemberExpression",
   value |-> [type |-> "MemberExpression",
              value |-> [type |-> "PropertyPathExpression",
                         value |-> Identifier(name)]]]
MethodCall(name, parameters) ==
  [type |-> "MethodCallExpression", value |-> [method |-> name, parameters |-> parameters]]
Binary(nodeType, l, r) == [type |-> nodeType, value |-> [left |-> l, right |-> r]]
Unary(nodeType, child) == [type |-> nodeType, value |-> child]

ComparisonTypes ==
  {"EqualsExpression", "NotEqualsExpression", "GreaterThanExpression",
   "GreaterOrEqualsExpression", "LesserThanExpression", "LesserOrEqualsExpression"}
ArithmeticTypes == {"MulExpression", "DivExpression", "AddExpression", "SubExpression"}
MemberTypes == {"FirstMemberExpression", "MemberExpression", "PropertyPathExpression"}

-----------------------------------------------------------------------------
(* src/utils/field-path.ts, lines 107-254 (utils/helpers) *)

Digits == <<"0", "1", "2", "3", "4", "5", "6", "7", "8", "9">>
IsDigit(c) == \E i \in 1..10 : Digits[i] = c
DigitValue(c) == (CHOOSE i \in 1..10 : Digits[i] = c) - 1

RECURSIVE DigitsToNat(_)
DigitsToNat(cs) ==
  IF cs = <<>> THEN 0
  ELSE 10 * DigitsToNat(SubSeq(cs, 1, Len(cs) - 1)) + DigitValue(cs[Len(cs)])

RECURSIVE Pow10(_)
Pow10(k) == IF k = 0 THEN 1 ELSE 10 * Pow10(k - 1)

RECURSIVE Gcd(_, _)
Gcd(x, y) == IF y = 0 THEN x ELSE Gcd(y, x % y)

Abs(x) == IF x < 0 THEN -x ELSE x

\* the rational n/d in lowest terms, d > 0
Rat(n, d) ==
  LET g == Gcd(Abs(n), Abs(d))
      sgn == IF d < 0 THEN -1 ELSE 1
  IN [t |-> "num", n |-> sgn * (n \div g), d |-> sgn * (d \div g)]

\* the longest prefix of digits
RECURSIVE DigitPrefix(_)
DigitPrefix(cs) ==
  IF cs = <<>> \/ ~IsDigit(Head(cs)) THEN <<>>
  ELSE <<Head(cs)>> \o DigitPrefix(Tail(cs))

StartsWith(cs, prefix) ==
  Len(cs) >= Len(prefix) /\ SubSeq(cs, 1, Len(prefix)) = prefix

integerOf(neg, ds) ==
  IF ds = <<>> THEN Nil ELSE Num(IF neg THEN -DigitsToNat(ds) ELSE DigitsToNat(ds))

\* parseInt(raw, 10): an optional sign and the leading digits; Nil is NaN
parseInt(rawText) ==
  IF rawText # <<>> /\ Head(rawText) = "-" THEN integerOf(TRUE, DigitPrefix(Tail(rawText)))
  ELSE integerOf(FALSE, DigitPrefix(rawText))

signed(neg, mag) == IF neg THEN Rat(-mag.n, mag.d) ELSE mag

decimalOf(neg, ip, fp) ==
  IF ip = <<>> /\ fp = <<>> THEN Nil
  ELSE signed(neg, Rat(DigitsToNat(ip) * Pow10(Len(fp)) + DigitsToNat(fp), Pow10(Len(fp))))

fractionAfter(rest) ==
  IF rest # <<>> /\ Head(rest) = "." THEN DigitPrefix(Tail(rest)) ELSE <<>>

unsignedDecimal(neg, body, ip) ==
  decimalOf(neg, ip, fractionAfter(SubSeq(body, Len(ip) + 1, Len(body))))

\* parseFloat(raw): sign, digits, an optional fraction; Nil is NaN
parseFloat(rawText) ==
  IF rawText # <<>> /\ Head(rawText) = "-"
  THEN unsignedDecimal(TRUE, Tail(rawText), DigitPrefix(Tail(rawText)))
  ELSE unsignedDecimal(FALSE, rawText, DigitPrefix(rawText))

\* /^\d{4}-\d{2}-\d{2}T\d{2}:\d{2}:\d{2}/
IsIsoDateTime(cs) ==
  /\ Len(cs) >= 19
  /\ \A i \in {1, 2, 3, 4, 6, 7, 9, 10, 12, 13, 15, 16, 18, 19} : IsDigit(cs[i])
  /\ cs[5] = "-" /\ cs[8] = "-" /\ cs[11] = "T" /\ cs[14] = ":" /\ cs[17] = ":"

\* new Date(raw) for a literal of UTC midnight
DateOfIso(cs, pos) ==
  Date(<<DigitsToNat(SubSeq(cs, 1, 4)), DigitsToNat(SubSeq(cs, 6, 7)),
         DigitsToNat(SubSeq(cs, 9, 10))>>, <<pos, 0>>)

\* parseFloat/parseInt results as JavaScript numbers: NaN is not finite
NotFinite == [t |-> "num", n |-> 0, d |-> 0]
IsFinite(x) == x.t = "num" /\ x.d # 0

DatetimePrefix == <<"d", "a", "t", "e", "t", "i", "m", "e">>
GuidPrefix == <<"g", "u", "i", "d">>

\* raw.replace(/<prefix>'(.+)'/, '$1')
StripQuoted(raw, prefix) ==
  LET n == Len(prefix)
  IN IF Len(raw) >= n + 3 /\ raw[n + 1] = "'" /\ raw[Len(raw)] = "'"
     THEN SubSeq(raw, n + 2, Len(raw) - 1) ELSE raw

numberOrNaN(parsed) == IF parsed = Nil THEN NotFinite ELSE parsed
parseFloatOrNaN(chars) == numberOrNaN(parseFloat(chars))

integerOrText(parsed, raw) == IF parsed # Nil THEN parsed ELSE Str(raw)

dateOfText(dateStr, pos) ==
  IF IsIsoDateTime(dateStr) THEN DateOfIso(dateStr, pos) ELSE Date(<<0, 0, 0>>, <<pos, 0>>)

valueOfRaw(raw, pos) ==
  IF Head(raw) = "'" /\ raw[Len(raw)] = "'" THEN Str(SubSeq(raw, 2, Len(raw) - 1))
  ELSE IF raw = <<"t", "r", "u", "e">> THEN Bool(TRUE)
  ELSE IF raw = <<"f", "a", "l", "s", "e">> THEN Bool(FALSE)
  ELSE IF raw = <<"n", "u", "l", "l">> THEN Null
  ELSE IF StartsWith(raw, DatetimePrefix) THEN dateOfText(StripQuoted(raw, DatetimePrefix), pos)
  ELSE IF IsIsoDateTime(raw) THEN DateOfIso(raw, pos)
  ELSE IF StartsWith(raw, GuidPrefix) THEN Str(StripQuoted(raw, GuidPrefix))
  ELSE IF \E i \in 1..Len(raw) : raw[i] = "." THEN parseFloatOrNaN(raw)
  ELSE integerOrText(parseInt(raw), raw)

\* a node without raw text is one that is not a Literal
getLiteralValue(literalNode) ==
  IF literalNode.type # "Literal" \/ literalNode.raw = <<>> THEN Null
  ELSE valueOfRaw(literalNode.raw, literalNode.position)

RECURSIVE getFieldName(_)
getFieldName(expr) ==
  IF expr.type \in MemberTypes THEN getFieldName(expr.value)
  ELSE IF expr.type = "ODataIdentifier" THEN Ok(expr.value.name)
  ELSE IF expr.type = "MethodCallExpression" THEN
         (IF expr.value.method \in {"tolower", "toupper", "trim"}
          THEN getFieldName(expr.value.parameters[1])
          ELSE Err(<<"Cannot extract field name from method: ", expr.value.method>>))
  ELSE Err(<<"Unsupported field expression type: ", expr.type>>)

getComparisonSymbol(type) ==
  CASE type = "EqualsExpression" -> "="
    [] type = "NotEqualsExpression" -> "!="
    [] type = "GreaterThanExpression" -> ">"
    [] type = "GreaterOrEqualsExpression" -> ">="
    [] type = "LesserThanExpression" -> "<"
    [] type = "LesserOrEqualsExpression" -> "<="
    [] OTHER -> "?"

-----------------------------------------------------------------------------
(* Numbers: JavaScript arithmetic on the literals' values, as rationals.   *)
(* d = 0 stands for a non-finite result (division by zero, NaN).           *)

NumDiv(x, y) ==
  IF ~IsFinite(x) \/ ~IsFinite(y) \/ y.n = 0 THEN NotFinite ELSE Rat(x.n * y.d, x.d * y.n)
NumMul(x, y) ==
  IF ~IsFinite(x) \/ ~IsFinite(y) THEN NotFinite ELSE Rat(x.n * y.n, x.d * y.d)
NumSub(x, y) ==
  IF ~IsFinite(x) \/ ~IsFinite(y) THEN NotFinite ELSE Rat(x.n * y.d - y.n * x.d, x.d * y.d)
NumAdd(x, y) ==
  IF ~IsFinite(x) \/ ~IsFinite(y) THEN NotFinite ELSE Rat(x.n * y.d + y.n * x.d, x.d * y.d)

\* new Date(Date.UTC(year, monthIndex, 1)); months beyond December carry
DateUTC(year, monthIndex, ident) ==
  IF IsFinite(year) /\ year.d = 1 /\ IsFinite(monthIndex) /\ monthIndex.d = 1
  THEN Date(<<year.n + (monthIndex.n \div 12), (monthIndex.n % 12) + 1, 1>>, ident)
  ELSE Date(<<0, 0, 0>>, ident)

\* `${value}` in an error message
RECURSIVE NatText(_)
NatText(k) == IF k < 10 THEN <<Digits[k + 1]>> ELSE Append(NatText(k \div 10), Digits[(k % 10) + 1])
TextOf(val) ==
  CASE val.t = "str" -> val.s
    [] val.t = "num" /\ val.d = 1 ->
         (IF val.n < 0 THEN <<"-">> \o NatText(-val.n) ELSE NatText(val.n))
    [] OTHER -> <<val.t>>

-----------------------------------------------------------------------------
(* src/converters/comparison.ts *)

ModeInsensitive == Str(<<"insensitive">>)
ModeDefault == Str(<<"default">>)

operatorMapSwapped(type) ==
  CASE type = "EqualsExpression" -> "equals"
    [] type = "NotEqualsExpression" -> "not"
    [] type = "GreaterThanExpression" -> "gte"
    [] type = "GreaterOrEqualsExpression" -> "gt"
    [] type = "LesserThanExpression" -> "lt"
    [] type = "LesserOrEqualsExpression" -> "lte"
    [] OTHER -> ""

\* operatorMap of handleComparison and comparisonMap of
\* handleArithmeticComparison (one table); "" is a missing entry
operatorMap(type) ==
  CASE type = "EqualsExpression" -> "equals"
    [] type = "NotEqualsExpression" -> "not"
    [] type = "GreaterThanExpression" -> "gt"
    [] type = "GreaterOrEqualsExpression" -> "gte"
    [] type = "LesserThanExpression" -> "lt"
    [] type = "LesserOrEqualsExpression" -> "lte"
    [] OTHER -> ""

\* the same with the operation applied instead of its inverse
handleArithmeticComparisonNotInverted(node, left, right, opts) ==
  LET field == getFieldName(left.value.left)
      operand == getLiteralValue(left.value.right)
      threshold == getLiteralValue(right)
      op == operatorMap(node.type)
      adjustedThreshold ==
        CASE left.type = "MulExpression" -> NumMul(threshold, operand)
          [] left.type = "DivExpression" -> NumDiv(threshold, operand)
          [] left.type = "AddExpression" -> NumAdd(threshold, operand)
          [] left.type = "SubExpression" -> NumSub(threshold, operand)
          [] OTHER -> Nil
  IN IF ~field.ok THEN field
     ELSE IF op = "" THEN Err(<<"Unsupported arithmetic comparison: ", node.type>>)
     ELSE IF adjustedThreshold = Nil
          THEN Err(<<"Unsupported arithmetic operation: ", left.type>>)
     ELSE IF op = "not"
          THEN Ok(Obj1(field.v, Obj1("not", Obj1("equals", adjustedThreshold))))
     ELSE Ok(Obj1(field.v, Obj1(op, adjustedThreshold)))

handleArithmeticComparison(node, left, right, opts) ==
  LET field == getFieldName(left.value.left)
      operand == getLiteralValue(left.value.right)
      threshold == getLiteralValue(right)
      op == operatorMap(node.type)
      adjustedThreshold ==
        CASE left.type = "MulExpression" -> NumDiv(threshold, operand)
          [] left.type = "DivExpression" -> NumMul(threshold, operand)
          [] left.type = "AddExpression" -> NumSub(threshold, operand)
          [] left.type = "SubExpression" -> NumAdd(threshold, operand)
          [] OTHER -> Nil
  IN IF ~field.ok THEN field
     ELSE IF op = "" THEN Err(<<"Unsupported arithmetic comparison: ", node.type>>)
     ELSE IF adjustedThreshold = Nil
          THEN Err(<<"Unsupported arithmetic operation: ", left.type>>)
     ELSE IF op = "not"
          THEN Ok(Obj1(field.v, Obj1("not", Obj1("equals", adjustedThreshold))))
     ELSE Ok(Obj1(field.v, Obj1(op, adjustedThreshold)))

handleYearEq(node, literalNode) ==
  LET field == getFieldName(node.value.parameters[1])
      year == getLiteralValue(literalNode)
  IN IF ~field.ok THEN field
     ELSE Ok(Obj1(field.v,
               Obj2("gte", DateUTC(year, Num(0), <<literalNode.position, 1>>),
                    "lt", DateUTC(NumAdd(year, Num(1)), Num(0), <<literalNode.position, 2>>))))

handleMonthEq(node, literalNode) ==
  LET field == getFieldName(node.value.parameters[1])
  IN IF ~field.ok THEN field
     ELSE Err(<<"Month extraction ", "requires raw SQL", ". Use prisma.$queryRaw">>)

handleDayEq(node, literalNode) ==
  LET field == getFieldName(node.value.parameters[1])
  IN IF ~field.ok THEN field
     ELSE Err(<<"Day extraction ", "requires raw SQL", ". Use prisma.$queryRaw">>)

handleLengthComparison(node, left, right) ==
  LET field == getFieldName(left.value.parameters[1])
      threshold == getLiteralValue(right)
  IN IF ~field.ok THEN field
     ELSE Err(<<"Length comparison ", "requires raw SQL",
                ": SELECT * FROM table WHERE LENGTH(", field.v, ") ",
                getComparisonSymbol(node.type), " ">> \o TextOf(threshold))

handleMathFunctionComparison(node, left, right, method) ==
  LET field == getFieldName(left.value.parameters[1])
  IN IF ~field.ok THEN field
     ELSE Err(<<"Math function ", method, " ", "requires raw SQL", " implementation">>)

\* the mode of the indexof comparison forms: options.caseSensitive ? 'default' : 'insensitive'
indexOfComparisonMode(opts) ==
  IF opts.caseSensitive = "true" THEN ModeDefault ELSE ModeInsensitive

handleFunctionComparison(node, left, right, opts) ==
  LET method == left.value.method
      parameters == left.value.parameters
  IN CASE method = "year" ->
            (IF node.type = "EqualsExpression" THEN handleYearEq(left, right)
             ELSE Err(<<"Unsupported year comparison: ", node.type>>))
       [] method = "month" ->
            (IF node.type = "EqualsExpression" THEN handleMonthEq(left, right)
             ELSE Err(<<"Unsupported month comparison: ", node.type>>))
       [] method = "day" ->
            (IF node.type = "EqualsExpression" THEN handleDayEq(left, right)
             ELSE Err(<<"Unsupported day comparison: ", node.type>>))
       [] method = "indexof" ->
            LET field == getFieldName(parameters[1])
                searchValue == getLiteralValue(parameters[2])
                threshold == getLiteralValue(right)
                filter == Obj2("contains", searchValue, "mode", indexOfComparisonMode(opts))
            IN IF ~field.ok THEN field
               ELSE IF node.type = "GreaterOrEqualsExpression" /\ threshold = Num(0)
                    THEN Ok(Obj1(field.v, filter))
               ELSE IF node.type = "EqualsExpression" /\ threshold = Num(-1)
                    THEN Ok(Obj1("NOT", Obj1(field.v, filter)))
               ELSE Err(<<"Unsupported indexof comparison: ", node.type,
                          " with threshold ">> \o TextOf(threshold))
       [] method = "length" -> handleLengthComparison(node, left, right)
       [] method \in {"round", "floor", "ceiling"} ->
            handleMathFunctionComparison(node, left, right, method)
       [] OTHER -> Err(<<"Unsupported function in comparison: ", method>>)

handleComparison(node, opts) ==
  LET left == IF node.value.left.type \in {"ParenExpression", "BoolParenExpression"}
              THEN node.value.left.value ELSE node.value.left
      right == node.value.right
  IN IF left.type \in ArithmeticTypes THEN handleArithmeticComparison(node, left, right, opts)
     ELSE IF left.type = "MethodCallExpression"
          THEN handleFunctionComparison(node, left, right, opts)
     ELSE LET field == getFieldName(left)
              value == getLiteralValue(right)
              operator == operatorMap(node.type)
          IN IF ~field.ok THEN field
             ELSE IF operator = ""
                  THEN Err(<<"Unsupported comparison operator: ", node.type>>)
             ELSE IF value = Null
                  THEN (IF operator = "equals" THEN Ok(Obj1(field.v, Null))
                        ELSE Ok(Obj1(field.v, Obj1("not", Null))))
             ELSE Ok(Obj1(field.v, Obj1(operator, value)))

-----------------------------------------------------------------------------
(* src/converters/methods.ts (unnamed/part_007) *)

\* options.caseSensitive !== undefined && !options.caseSensitive
explicitlyInsensitive(opts) == opts.caseSensitive = "false"

\* {[key]: searchValue} with mode 'insensitive' added when asked
stringFilter(key, searchValue, insensitive) ==
  IF insensitive THEN Obj2(key, searchValue, "mode", ModeInsensitive)
  ELSE Obj1(key, searchValue)

isToLowerCall(fieldNode) ==
  fieldNode.type = "MethodCallExpression" /\ fieldNode.value.method = "tolower"

prefixSuffixIgnoringToLower(key, parameters, opts) ==
  LET field == getFieldName(parameters[1])
  IN IF ~field.ok THEN field
     ELSE Ok(Obj1(field.v, stringFilter(key, getLiteralValue(parameters[2]),
                                        explicitlyInsensitive(opts))))

\* the startswith and endswith cases
prefixSuffix(key, parameters, opts) ==
  LET wrapped == isToLowerCall(parameters[1])
      fieldNode == IF wrapped THEN parameters[1].value.parameters[1] ELSE parameters[1]
      insensitive == wrapped \/ explicitlyInsensitive(opts)
      field == getFieldName(fieldNode)
  IN IF ~field.ok THEN field
     ELSE Ok(Obj1(field.v, stringFilter(key, getLiteralValue(parameters[2]), insensitive)))

handleMethod(node, opts) ==
  LET expr == IF node.type \in {"CommonExpression", "ParenExpression", "BoolParenExpression"}
              THEN node.value ELSE node
  IN IF expr.type # "MethodCallExpression"
     THEN Err(<<"Expected MethodCallExpression, got: ", expr.type>>)
     ELSE LET method == expr.value.method
              parameters == expr.value.parameters
          IN CASE method \in {"contains", "indexof"} ->
                    LET field == getFieldName(parameters[1])
                    IN IF ~field.ok THEN field
                       ELSE Ok(Obj1(field.v,
                                 stringFilter("contains", getLiteralValue(parameters[2]),
                                              explicitlyInsensitive(opts))))
               [] method = "substringof" ->
                    LET field == getFieldName(parameters[2])
                    IN IF ~field.ok THEN field
                       ELSE Ok(Obj1(field.v,
                                 stringFilter("contains", getLiteralValue(parameters[1]),
                                              explicitlyInsensitive(opts))))
               [] method = "startswith" -> prefixSuffix("startsWith", parameters, opts)
               [] method = "endswith" -> prefixSuffix("endsWith", parameters, opts)
               [] method \in {"tolower", "toupper", "trim"} ->
                    Err(<<"String transformation functions should be handled in comparison context">>)
               [] method = "concat" ->
                    Err(<<"concat function should be used in comparison context">>)
               [] OTHER -> Err(<<"Unsupported method: ", method>>)

\* node.value.right.value.items, each a literal
handleInExpression(node, opts) ==
  LET field == getFieldName(node.value.left)
      items == node.value.right.value.items
  IN IF ~field.ok THEN field
     ELSE Ok(Obj1(field.v, Obj1("in", Arr([i \in 1..Len(items) |-> getLiteralValue(items[i])]))))

-----------------------------------------------------------------------------
(* src/converters/date.ts *)

\* Ok(Nil) is the "return null"
tryHandleYearMonth(a, b) ==
  IF /\ a.type = "EqualsExpression" /\ b.type = "EqualsExpression"
     /\ a.value.left.type = "MethodCallExpression"
     /\ b.value.left.type = "MethodCallExpression"
     /\ \/ (a.value.left.value.method = "year" /\ b.value.left.value.method = "month")
        \/ (a.value.left.value.method = "month" /\ b.value.left.value.method = "year")
  THEN LET al == a.value.left
           bl == b.value.left
           aIsYear == al.value.method = "year"
           yearExpr == IF aIsYear THEN al ELSE bl
           yearLit == IF aIsYear THEN a.value.right ELSE b.value.right
           monthLit == IF aIsYear THEN b.value.right ELSE a.value.right
           yearValue == getLiteralValue(yearLit)
           monthValue == getLiteralValue(monthLit)
           field == getFieldName(yearExpr.value.parameters[1])
       IN IF ~field.ok THEN field
          ELSE Ok(Obj1(field.v,
                    Obj2("gte", DateUTC(yearValue, NumSub(monthValue, Num(1)),
                                        <<yearLit.position, 1>>),
                         "lt", DateUTC(yearValue, monthValue, <<yearLit.position, 2>>))))
  ELSE Ok(Nil)

\* the same with the two bounds exchanged
tryHandleDateRangeExchanged(a, b) ==
  IF /\ a.type \in {"GreaterOrEqualsExpression", "GreaterThanExpression"}
     /\ b.type \in {"LesserOrEqualsExpression", "LesserThanExpression"}
  THEN LET aField == getFieldName(a.value.left)
           bField == getFieldName(b.value.left)
           startOp == IF a.type = "GreaterOrEqualsExpression" THEN "gte" ELSE "gt"
           endOp == IF b.type = "LesserOrEqualsExpression" THEN "lte" ELSE "lt"
       IN IF ~aField.ok THEN aField
          ELSE IF ~bField.ok THEN bField
          ELSE IF aField.v = bField.v
               THEN Ok(Obj1(aField.v, Obj2(startOp, getLiteralValue(b.value.right),
                                           endOp, getLiteralValue(a.value.right))))
          ELSE Ok(Nil)
  ELSE Ok(Nil)

tryHandleDateRange(a, b) ==
  IF /\ a.type \in {"GreaterOrEqualsExpression", "GreaterThanExpression"}
     /\ b.type \in {"LesserOrEqualsExpression", "LesserThanExpression"}
  THEN LET aField == getFieldName(a.value.left)
           bField == getFieldName(b.value.left)
           startOp == IF a.type = "GreaterOrEqualsExpression" THEN "gte" ELSE "gt"
           endOp == IF b.type = "LesserOrEqualsExpression" THEN "lte" ELSE "lt"
       IN IF ~aField.ok THEN aField
          ELSE IF ~bField.ok THEN bField
          ELSE IF aField.v = bField.v
               THEN Ok(Obj1(aField.v, Obj2(startOp, getLiteralValue(a.value.right),
                                           endOp, getLiteralValue(b.value.right))))
          ELSE Ok(Nil)
  ELSE Ok(Nil)

\* first(x) || second(y): the second is not evaluated when the first throws
\* or returns an object
OrElse(first, second) ==
  IF ~first.ok THEN first ELSE IF first.v # Nil THEN first ELSE second

-----------------------------------------------------------------------------
(* src/converters/index.ts (unnamed/part_005): convertNode *)

\* {[key]: [left, right]}, the left operand converted first
pairOf(key, l, r) ==
  IF ~l.ok THEN l ELSE IF ~r.ok THEN r ELSE Ok(Obj1(key, Arr(<<l.v, r.v>>)))

negationOf(c) == IF ~c.ok THEN c ELSE Ok(Obj1("NOT", c.v))

\* if (yearMonth) return yearMonth; if (dateRange) return dateRange; ...
firstOf(yearMonth, dateRange, otherwise) ==
  IF ~yearMonth.ok \/ yearMonth.v # Nil THEN yearMonth
  ELSE IF ~dateRange.ok \/ dateRange.v # Nil THEN dateRange
  ELSE otherwise

RECURSIVE convertNode(_, _)
convertNode(node, opts) ==
  CASE node.type \in ComparisonTypes -> handleComparison(node, opts)
    [] node.type = "AndExpression" ->
         firstOf(OrElse(tryHandleYearMonth(node.value.left, node.value.right),
                        tryHandleYearMonth(node.value.right, node.value.left)),
                 OrElse(tryHandleDateRange(node.value.left, node.value.right),
                        tryHandleDateRange(node.value.right, node.value.left)),
                 pairOf("AND", convertNode(node.value.left, opts),
                        convertNode(node.value.right, opts)))
    [] node.type = "OrExpression" ->
         pairOf("OR", convertNode(node.value.left, opts), convertNode(node.value.right, opts))
    [] node.type = "NotExpression" -> negationOf(convertNode(node.value, opts))
    [] node.type \in {"MethodCallExpression", "CommonExpression"} -> handleMethod(node, opts)
    [] node.type \in {"ParenExpression", "BoolParenExpression"} -> convertNode(node.value, opts)
    [] node.type = "InExpression" -> handleInExpression(node, opts)
    [] OTHER -> Err(<<"Unsupported AST node type: ", node.type>>)

-----------------------------------------------------------------------------
(* Filter strings.  A string is a sequence of tokens: a word (\w+), a      *)
(* punctuation character, a blank, a number (digits with an optional       *)
(* fraction), a quoted literal or an ISO date-time literal.  Words,        *)
(* punctuation and blanks carry their text in s; the others carry their    *)
(* characters in raw.  A number is never used as a field name.             *)

W(word) == [c |-> "w", s |-> word]
P(char) == [c |-> "p", s |-> char]
SP == [c |-> "sp", s |-> " "]
NumTok(chars) == [c |-> "n", raw |-> chars]
QuoteTok(chars) == [c |-> "q", raw |-> chars]
DateTok(chars) == [c |-> "d", raw |-> chars]

IsWordTok(tok) == tok.c = "w"
IsWord(tok, word) == tok.c = "w" /\ tok.s = word
IsPunct(tok, char) == tok.c = "p" /\ tok.s = char
IsSpace(tok) == tok.c = "sp"

\* the text of a token: a word is one fragment, other characters one each
TokText(tok) == IF tok.c \in {"w", "p", "sp"} THEN <<tok.s>> ELSE tok.raw

RECURSIVE Text(_)
Text(toks) == IF toks = <<>> THEN <<>> ELSE TokText(Head(toks)) \o Text(Tail(toks))

\* the characters of the words that are literals
WordChars(word) ==
  CASE word = "true" -> <<"t", "r", "u", "e">>
    [] word = "false" -> <<"f", "a", "l", "s", "e">>
    [] word = "null" -> <<"n", "u", "l", "l">>
    [] OTHER -> <<word>>

\* String.prototype.toLowerCase on the words of the filter strings
\* (the /i flag of the patterns)
toLowerCase(word) ==
  CASE word \in {"ANY", "Any"} -> "any"
    [] word \in {"ALL", "All"} -> "all"
    [] word \in {"DESC", "Desc"} -> "desc"
    [] word = "IN" -> "in"
    [] word = "EQ" -> "eq"
    [] word = "GT" -> "gt"
    [] OTHER -> word

\* String.prototype.trim
RECURSIVE trim(_)
trim(toks) ==
  IF toks = <<>> THEN <<>>
  ELSE IF IsSpace(Head(toks)) THEN trim(Tail(toks))
  ELSE IF IsSpace(toks[Len(toks)]) THEN trim(SubSeq(toks, 1, Len(toks) - 1))
  ELSE toks

\* the index of the first token at or after i that is not a blank (\s*)
RECURSIVE SkipSpaces(_, _)
SkipSpaces(toks, i) ==
  IF i <= Len(toks) /\ IsSpace(toks[i]) THEN SkipSpaces(toks, i + 1) ELSE i

\* split(','): the pieces between the commas
RECURSIVE SplitOnComma(_)
SplitOnComma(toks) ==
  IF \E i \in 1..Len(toks) : IsPunct(toks[i], ",")
  THEN LET i == CHOOSE k \in 1..Len(toks) :
                  IsPunct(toks[k], ",") /\ \A j \in 1..(k - 1) : ~IsPunct(toks[j], ",")
       IN <<SubSeq(toks, 1, i - 1)>> \o SplitOnComma(SubSeq(toks, i + 1, Len(toks)))
  ELSE <<toks>>

\* the least element of a non-empty set of indices (the leftmost match)
Least(indices) == CHOOSE i \in indices : \A j \in indices : i <= j

ComparisonWords == {"eq", "ne", "gt", "ge", "lt", "le"}

-----------------------------------------------------------------------------
(* src/utils/field-path.ts: preprocessODataFilter *)

\* /(\w+)\s+in\s*\(([^)]+)\)/i matched with the word at i: the indices of
\* "(" and of the first ")" after it, or Nil
InMatchAt(toks, i) ==
  IF ~(i + 2 <= Len(toks) /\ IsWordTok(toks[i]) /\ IsSpace(toks[i + 1])) THEN Nil
  ELSE LET k == SkipSpaces(toks, i + 1)
       IN IF ~(k <= Len(toks) /\ toks[k].c = "w" /\ toLowerCase(toks[k].s) = "in") THEN Nil
          ELSE LET open == SkipSpaces(toks, k + 1)
               IN IF ~(open <= Len(toks) /\ IsPunct(toks[open], "(")) THEN Nil
                  ELSE LET closers == {j \in (open + 1)..Len(toks) : IsPunct(toks[j], ")")}
                       IN IF closers = {} \/ Least(closers) = open + 1 THEN Nil
                          ELSE [open |-> open, close |-> Least(closers)]

InMatches(toks) == {i \in 1..Len(toks) : InMatchAt(toks, i) # Nil}

\* `${field} eq ${v1} or ${field} eq ${v2} ...`
RECURSIVE OrChain(_, _)
OrChain(fieldTok, valueList) ==
  LET first == <<fieldTok, SP, W("eq"), SP>> \o Head(valueList)
  IN IF Len(valueList) = 1 THEN first
     ELSE first \o <<SP, W("or"), SP>> \o OrChain(fieldTok, Tail(valueList))

\* the replacement of one `field in (...)` match
InReplacement(fieldTok, values) ==
  LET pieces == SplitOnComma(values)
      valueList == [i \in 1..Len(pieces) |-> trim(pieces[i])]
  IN IF Len(valueList) = 1 THEN OrChain(fieldTok, valueList)
     ELSE <<P("(")>> \o OrChain(fieldTok, valueList) \o <<P(")")>>

\* replace(inPattern, ...) with the g flag: every match, left to right
RECURSIVE ReplaceIn(_)
ReplaceIn(toks) ==
  IF InMatches(toks) = {} THEN toks
  ELSE LET i == Least(InMatches(toks))
           m == InMatchAt(toks, i)
       IN SubSeq(toks, 1, i - 1)
            \o InReplacement(toks[i], SubSeq(toks, m.open + 1, m.close - 1))
            \o ReplaceIn(SubSeq(toks, m.close + 1, Len(toks)))

\* `'${new Date(dateStr).toISOString()}'` for a UTC date-time without
\* fraction; toISOString throws on an invalid date and the match is kept
IsoQuoted(chars) ==
  <<"'">> \o SubSeq(chars, 2, 20) \o <<".", "0", "0", "0", "Z", "'">>

\* /^\d{4}-\d{2}-\d{2}$/, a date without time
IsIsoDate(chars) ==
  /\ Len(chars) = 10
  /\ \A i \in {1, 2, 3, 4, 6, 7, 9, 10} : IsDigit(chars[i])
  /\ chars[5] = "-" /\ chars[8] = "-"

\* replace(/datetime'([^']+)'/gi, ...); other date formats are not used
RECURSIVE ReplaceDatetime(_)
ReplaceDatetime(toks) ==
  IF Len(toks) < 2 THEN toks
  ELSE IF /\ toks[1].c = "w" /\ toks[1].s \in {"datetime", "DATETIME", "DateTime"}
          /\ toks[2].c = "q" /\ Len(toks[2].raw) > 2
       THEN (IF IsIsoDateTime(SubSeq(toks[2].raw, 2, Len(toks[2].raw) - 1))
             THEN <<QuoteTok(IsoQuoted(toks[2].raw))>>
             ELSE IF IsIsoDate(SubSeq(toks[2].raw, 2, Len(toks[2].raw) - 1))
             THEN <<QuoteTok(IsoQuoted(SubSeq(toks[2].raw, 1, 11)
                                         \o <<"T", "0", "0", ":", "0", "0", ":", "0", "0">>))>>
             ELSE <<toks[1], toks[2]>>) \o ReplaceDatetime(SubSeq(toks, 3, Len(toks)))
       ELSE <<toks[1]>> \o ReplaceDatetime(Tail(toks))

preprocessODataFilter(toks) == ReplaceIn(ReplaceDatetime(toks))

-----------------------------------------------------------------------------
(* The primary grammar parser (odata-v4-parser), an external library: it   *)
(* returns an AST or throws.  It accepts comparisons, the word arithmetic  *)
(* operators, function calls, parentheses and and/or/not, `and` binding    *)
(* tighter than `or`, chains nested to the right; it rejects navigation    *)
(* paths, lambda expressions, symbolic arithmetic and `in`.                *)

Keywords ==
  ComparisonWords \cup {"and", "or", "not", "in", "mul", "div", "add", "sub",
                        "true", "false", "null"}

MethodNames ==
  {"contains", "substringof", "startswith", "endswith", "indexof", "tolower",
   "toupper", "trim", "concat", "year", "month", "day", "length", "round",
   "floor", "ceiling"}

ComparisonTypeOf(word) ==
  CASE word = "eq" -> "EqualsExpression"
    [] word = "ne" -> "NotEqualsExpression"
    [] word = "gt" -> "GreaterThanExpression"
    [] word = "ge" -> "GreaterOrEqualsExpression"
    [] word = "lt" -> "LesserThanExpression"
    [] word = "le" -> "LesserOrEqualsExpression"

ArithmeticTypeOf(word) ==
  CASE word = "mul" -> "MulExpression"
    [] word = "div" -> "DivExpression"
    [] word = "add" -> "AddExpression"
    [] word = "sub" -> "SubExpression"

\* the tokens that are not blanks, each with its position in the string
Significant(toks) ==
  LET kept == {i \in 1..Len(toks) : ~IsSpace(toks[i])}
      nth(n) == CHOOSE i \in kept : Cardinality({j \in kept : j < i}) = n - 1
  IN [n \in 1..Cardinality(kept) |-> [tok |-> toks[nth(n)], idx |-> nth(n)]]

Fail == [ok |-> FALSE]
Parsed(n, remaining) == [ok |-> TRUE, node |-> n, rest |-> remaining]

NextIs(ts, class) == ts # <<>> /\ ts[1].tok.c = class
NextIsWord(ts, words) == NextIs(ts, "w") /\ ts[1].tok.s \in words
NextIsPunct(ts, char) == NextIs(ts, "p") /\ ts[1].tok.s = char

parseLiteral(ts) ==
  IF NextIs(ts, "n") \/ NextIs(ts, "q") \/ NextIs(ts, "d")
  THEN Parsed(Literal(ts[1].tok.raw, ts[1].idx), Tail(ts))
  ELSE IF NextIsPunct(ts, "-") /\ NextIs(Tail(ts), "n")
  THEN Parsed(Literal(<<"-">> \o ts[2].tok.raw, ts[1].idx), Tail(Tail(ts)))
  ELSE IF NextIsWord(ts, {"true", "false", "null"})
  THEN Parsed(Literal(WordChars(ts[1].tok.s), ts[1].idx), Tail(ts))
  ELSE Fail

RECURSIVE parseArg(_), parseArgs(_), parseCall(_)

callAfterArgs(ts, args) ==
  IF args.ok /\ NextIsPunct(args.rest, ")")
  THEN Parsed(MethodCall(ts[1].tok.s, args.node), Tail(args.rest))
  ELSE Fail

\* method "(" argument {"," argument} ")"
parseCall(ts) ==
  IF NextIsWord(ts, MethodNames) /\ NextIsPunct(Tail(ts), "(")
  THEN callAfterArgs(ts, parseArgs(Tail(Tail(ts))))
  ELSE Fail

argOrLiteral(ts, literal) ==
  IF literal.ok THEN literal
  ELSE IF NextIsWord(ts, MethodNames) /\ NextIsPunct(Tail(ts), "(") THEN parseCall(ts)
  ELSE IF NextIs(ts, "w") /\ ts[1].tok.s \notin Keywords
  THEN Parsed(FieldNode(ts[1].tok.s), Tail(ts))
  ELSE Fail

parseArg(ts) == argOrLiteral(ts, parseLiteral(ts))

argsJoined(first, more) ==
  IF more.ok THEN Parsed(<<first.node>> \o more.node, more.rest) ELSE Fail

argsAfterFirst(first) ==
  IF ~first.ok THEN Fail
  ELSE IF NextIsPunct(first.rest, ",") THEN argsJoined(first, parseArgs(Tail(first.rest)))
  ELSE Parsed(<<first.node>>, first.rest)

parseArgs(ts) == argsAfterFirst(parseArg(ts))

arithmeticOf(term, operand) ==
  IF operand.ok
  THEN Parsed(Binary(ArithmeticTypeOf(term.rest[1].tok.s), term.node, operand.node),
              operand.rest)
  ELSE Fail

operandAfterTerm(term) ==
  IF ~term.ok THEN Fail
  ELSE IF NextIsWord(term.rest, {"mul", "div", "add", "sub"})
  THEN arithmeticOf(term, parseLiteral(Tail(term.rest)))
  ELSE term

parseTerm(ts) ==
  IF NextIsWord(ts, MethodNames) THEN parseCall(ts)
  ELSE IF NextIs(ts, "w") /\ ts[1].tok.s \notin Keywords
  THEN Parsed(FieldNode(ts[1].tok.s), Tail(ts))
  ELSE Fail

\* a field or a call, with an optional `mul|div|add|sub literal`
parseOperand(ts) == operandAfterTerm(parseTerm(ts))

RECURSIVE parseExpr(_), parseAnd(_), parseUnary(_)

notOf(child) ==
  IF child.ok THEN Parsed(Unary("NotExpression", child.node), child.rest) ELSE Fail

parenOf(inner) ==
  IF inner.ok /\ NextIsPunct(inner.rest, ")")
  THEN Parsed(Unary("BoolParenExpression", inner.node), Tail(inner.rest))
  ELSE Fail

comparisonOf(left, right) ==
  IF right.ok
  THEN Parsed(Binary(ComparisonTypeOf(left.rest[1].tok.s), left.node, right.node), right.rest)
  ELSE Fail

\* operand cmp literal, or a call standing alone
comparisonAfterOperand(left) ==
  IF ~left.ok THEN Fail
  ELSE IF NextIsWord(left.rest, ComparisonWords)
  THEN comparisonOf(left, parseLiteral(Tail(left.rest)))
  ELSE IF left.node.type = "MethodCallExpression" THEN left
  ELSE Fail

parseUnary(ts) ==
  IF NextIsWord(ts, {"not"}) THEN notOf(parseUnary(Tail(ts)))
  ELSE IF NextIsPunct(ts, "(") THEN parenOf(parseExpr(Tail(ts)))
  ELSE comparisonAfterOperand(parseOperand(ts))

logicalOf(nodeType, left, right) ==
  IF right.ok THEN Parsed(Binary(nodeType, left.node, right.node), right.rest) ELSE Fail

andAfterLeft(left) ==
  IF ~left.ok THEN Fail
  ELSE IF NextIsWord(left.rest, {"and"})
  THEN logicalOf("AndExpression", left, parseAnd(Tail(left.rest)))
  ELSE left

parseAnd(ts) == andAfterLeft(parseUnary(ts))

orAfterLeft(left) ==
  IF ~left.ok THEN Fail
  ELSE IF NextIsWord(left.rest, {"or"})
  THEN logicalOf("OrExpression", left, parseExpr(Tail(left.rest)))
  ELSE left

parseExpr(ts) == orAfterLeft(parseAnd(ts))

parsedWhole(parsed) ==
  IF parsed.ok /\ parsed.rest = <<>> THEN Ok(parsed.node)
  ELSE Err(<<"Unexpected character in filter">>)

\* odataParser.filter(preprocessed)
odataParserFilter(toks) == parsedWhole(parseExpr(Significant(toks)))

-----------------------------------------------------------------------------
(* src/utils/fallback.ts and buildNestedWhere of src/utils/field-path.ts *)

RECURSIVE buildNestedWhere(_, _)
buildNestedWhere(path, condition) ==
  IF path = <<>> THEN condition
  ELSE Obj1(Head(path), buildNestedWhere(Tail(path), condition))

\* the object literal {'eq': 'equals', ...}[comparison]; "" is undefined
prismaOp(comparison) ==
  CASE comparison = "eq" -> "equals"
    [] comparison = "ne" -> "not"
    [] comparison = "gt" -> "gt"
    [] comparison = "ge" -> "gte"
    [] comparison = "lt" -> "lt"
    [] comparison = "le" -> "lte"
    [] OTHER -> ""

\* /^-?\d+(\.\d+)?$/
IsPlainNumber(toks) ==
  LET body == IF toks # <<>> /\ IsPunct(toks[1], "-") THEN Tail(toks) ELSE toks
  IN /\ Len(body) = 1 /\ body[1].c = "n"
     /\ LET raw == body[1].raw
            ip == DigitPrefix(raw)
            rest == SubSeq(raw, Len(ip) + 1, Len(raw))
        IN /\ ip # <<>>
           /\ \/ rest = <<>>
              \/ /\ Len(rest) >= 2 /\ Head(rest) = "."
                 /\ DigitPrefix(Tail(rest)) = Tail(rest)

parseValue(valueStr) ==
  LET trimmed == trim(valueStr)
      text == Text(trimmed)
  IN IF text # <<>> /\ Head(text) = "'" /\ text[Len(text)] = "'"
     THEN Str(SubSeq(text, 2, Len(text) - 1))
     ELSE IF trimmed = <<W("true")>> THEN Bool(TRUE)
     ELSE IF trimmed = <<W("false")>> THEN Bool(FALSE)
     ELSE IF trimmed = <<W("null")>> THEN Null
     ELSE IF IsPlainNumber(trimmed) THEN parseFloatOrNaN(text)
     ELSE Str(text)

\* \s+(eq|ne|gt|ge|lt|le)\s+(.+) after the token at index last, /i:
\* the comparison word as written and the rest of the string, or Nil
OpAfter(toks, last) ==
  IF ~(last + 1 <= Len(toks) /\ IsSpace(toks[last + 1])) THEN Nil
  ELSE LET k == SkipSpaces(toks, last + 1)
       IN IF /\ k + 1 <= Len(toks) /\ toks[k].c = "w"
             /\ toLowerCase(toks[k].s) \in ComparisonWords
             /\ IsSpace(toks[k + 1]) /\ SkipSpaces(toks, k + 1) <= Len(toks)
          THEN [comparison |-> toks[k].s,
                valueStr |-> SubSeq(toks, SkipSpaces(toks, k + 1), Len(toks))]
          ELSE Nil

\* /(\w+)\s+(eq|ne|gt|ge|lt|le)\s+(.+)/i
parseSimpleCondition(condition) ==
  LET matches == {i \in 1..Len(condition) :
                    IsWordTok(condition[i]) /\ OpAfter(condition, i) # Nil}
  IN IF matches = {} THEN Err(<<"Cannot parse condition: ">> \o Text(condition))
     ELSE LET i == Least(matches)
              m == OpAfter(condition, i)
          IN IF prismaOp(m.comparison) = ""
             THEN Err(<<"Unsupported comparison operator: ", m.comparison>>)
             ELSE Ok(Obj1(condition[i].s, Obj1(prismaOp(m.comparison), parseValue(m.valueStr))))

\* the last token of the longest \w+(\/\w+)* that starts at i
RECURSIVE PathEnd(_, _)
PathEnd(toks, i) ==
  IF i + 2 <= Len(toks) /\ IsPunct(toks[i + 1], "/") /\ IsWordTok(toks[i + 2])
  THEN PathEnd(toks, i + 2) ELSE i

\* split('/') of the path from i to last
RECURSIVE PathWords(_, _, _)
PathWords(toks, i, last) ==
  IF i > last THEN <<>> ELSE <<toks[i].s>> \o PathWords(toks, i + 2, last)

\* replace(new RegExp(`\\b${variable}\\/`, 'g'), '')
RECURSIVE RemoveVariable(_, _)
RemoveVariable(toks, variable) ==
  IF toks = <<>> THEN <<>>
  ELSE IF Len(toks) >= 2 /\ IsWord(toks[1], variable) /\ IsPunct(toks[2], "/")
  THEN RemoveVariable(SubSeq(toks, 3, Len(toks)), variable)
  ELSE <<toks[1]>> \o RemoveVariable(Tail(toks), variable)

\* /(\w+(?:\/\w+)*)\/(any|all)\((\w+):\s*(.+)\)/i with the path from i to
\* last: the condition runs to the last ")" of the string
CollectionMatchAt(toks, i, last) ==
  IF /\ last + 5 <= Len(toks)
     /\ IsPunct(toks[last + 1], "/")
     /\ toks[last + 2].c = "w" /\ toLowerCase(toks[last + 2].s) \in {"any", "all"}
     /\ IsPunct(toks[last + 3], "(")
     /\ IsWordTok(toks[last + 4])
     /\ IsPunct(toks[last + 5], ":")
  THEN LET from == SkipSpaces(toks, last + 6)
           closers == {k \in (from + 1)..Len(toks) : IsPunct(toks[k], ")")}
       IN IF closers = {} THEN Nil
          ELSE [path |-> PathWords(toks, i, last),
                type |-> toks[last + 2].s,
                variable |-> toks[last + 4].s,
                condition |-> SubSeq(toks, from,
                                     (CHOOSE k \in closers : \A j \in closers : j <= k) - 1)]
  ELSE Nil

\* the ends of the paths from i that give a match; the longest is taken
CollectionEnds(toks, i) ==
  IF ~IsWordTok(toks[i]) THEN {}
  ELSE {last \in i..PathEnd(toks, i) :
          (last - i) % 2 = 0 /\ CollectionMatchAt(toks, i, last) # Nil}

\* /(\w+)\s*([*\/+-])\s*([\d.]+)\s+(eq|ne|gt|ge|lt|le)\s+([\d.]+)/i with
\* the word at i
ArithmeticMatchAt(toks, i) ==
  IF ~IsWordTok(toks[i]) THEN Nil
  ELSE LET a == SkipSpaces(toks, i + 1)
       IN IF ~(a <= Len(toks) /\ toks[a].c = "p" /\ toks[a].s \in {"*", "/", "+", "-"}) THEN Nil
          ELSE LET b == SkipSpaces(toks, a + 1)
               IN IF ~(b + 1 <= Len(toks) /\ toks[b].c = "n" /\ IsSpace(toks[b + 1])) THEN Nil
                  ELSE LET k == SkipSpaces(toks, b + 1)
                       IN IF ~(/\ k + 1 <= Len(toks) /\ toks[k].c = "w"
                               /\ toLowerCase(toks[k].s) \in ComparisonWords
                               /\ IsSpace(toks[k + 1])) THEN Nil
                          ELSE LET t == SkipSpaces(toks, k + 1)
                               IN IF ~(t <= Len(toks) /\ toks[t].c \in {"n", "d"}) THEN Nil
                                  ELSE [field |-> toks[i].s,
                                        operator |-> toks[a].s,
                                        operand |-> toks[b].raw,
                                        comparison |-> toks[k].s,
                                        target |-> IF toks[t].c = "n" THEN toks[t].raw
                                                   ELSE DigitPrefix(toks[t].raw)]

\* Math.round(x * 100) / 100, halves rounded up
roundTo2(x) ==
  IF ~IsFinite(x) THEN x ELSE Rat((200 * x.n + x.d) \div (2 * x.d), 100)

\* Number(trimmed), NaN giving the text without its quotes
NumberOrText(trimmed) ==
  LET body == IF trimmed # <<>> /\ (IsPunct(trimmed[1], "-") \/ IsPunct(trimmed[1], "+"))
              THEN Tail(trimmed) ELSE trimmed
      text == Text(trimmed)
  IN IF trimmed = <<>> THEN Num(0)
     ELSE IF Len(body) = 1 /\ body[1].c = "n" /\ parseFloat(body[1].raw) # Nil
     THEN (IF IsPunct(trimmed[1], "-") THEN NumSub(Num(0), parseFloat(body[1].raw))
           ELSE parseFloat(body[1].raw))
     ELSE Str(SelectSeq(text, LAMBDA ch : ch \notin {"'", "\""}))

fallbackParser(toks, opts) ==
  LET collectionStarts == {i \in 1..Len(toks) : CollectionEnds(toks, i) # {}}
      nestedStarts == {i \in 1..Len(toks) :
                         /\ IsWordTok(toks[i]) /\ PathEnd(toks, i) > i
                         /\ OpAfter(toks, PathEnd(toks, i)) # Nil}
      arithmeticStarts == {i \in 1..Len(toks) : ArithmeticMatchAt(toks, i) # Nil}
  IN IF collectionStarts # {}
     THEN LET i == Least(collectionStarts)
              last == CHOOSE e \in CollectionEnds(toks, i) :
                        \A o \in CollectionEnds(toks, i) : o <= e
              m == CollectionMatchAt(toks, i, last)
              conditionWhere == parseSimpleCondition(RemoveVariable(m.condition, m.variable))
          IN IF ~conditionWhere.ok THEN conditionWhere
             ELSE Ok(buildNestedWhere(m.path,
                       Obj1(IF m.type = "any" THEN "some" ELSE "every", conditionWhere.v)))
     ELSE IF nestedStarts # {}
     THEN LET i == Least(nestedStarts)
              m == OpAfter(toks, PathEnd(toks, i))
          IN IF prismaOp(m.comparison) = ""
             THEN Err(<<"Unsupported comparison operator: ", m.comparison>>)
             ELSE Ok(buildNestedWhere(PathWords(toks, i, PathEnd(toks, i)),
                                      Obj1(prismaOp(m.comparison), parseValue(m.valueStr))))
     ELSE IF arithmeticStarts # {}
     THEN LET m == ArithmeticMatchAt(toks, Least(arithmeticStarts))
              operandNum == parseFloatOrNaN(m.operand)
              targetNum == parseFloatOrNaN(m.target)
              resultValue ==
                CASE m.operator = "*" -> NumDiv(targetNum, operandNum)
                  [] m.operator = "/" -> NumMul(targetNum, operandNum)
                  [] m.operator = "+" -> NumSub(targetNum, operandNum)
                  [] m.operator = "-" -> NumAdd(targetNum, operandNum)
          IN IF prismaOp(m.comparison) = ""
             THEN Err(<<"Unsupported comparison operator: ", m.comparison>>)
             ELSE Ok(Obj1(m.field, Obj1(prismaOp(m.comparison), roundTo2(resultValue))))
     ELSE IF InMatches(toks) # {}
     THEN LET i == Least(InMatches(toks))
              m == InMatchAt(toks, i)
              pieces == SplitOnComma(SubSeq(toks, m.open + 1, m.close - 1))
          IN Ok(Obj1(toks[i].s,
                     Obj1("in", Arr([n \in 1..Len(pieces) |-> NumberOrText(trim(pieces[n]))]))))
     ELSE Err(<<"Fallback parsing failed">>)

-----------------------------------------------------------------------------
(* The lowering engine on its own: convertNode applied to one AST *)

MaxNumber == 2

FieldIds == {"Name", "Age"}

NumberRaws == {NatText(k) : k \in 0..MaxNumber} \cup {<<"-", "1">>}
IsoRaw == <<"2", "0", "2", "3", "-", "0", "1", "-", "0", "1", "T",
            "0", "0", ":", "0", "0", ":", "0", "0", "Z">>
OtherRaws ==
  {<<"'", "x", "'">>, <<"n", "u", "l", "l">>, <<"t", "r", "u", "e">>, <<"1", ".", "5">>, IsoRaw}
LiteralRaws == NumberRaws \cup OtherRaws

Quoted == Literal(<<"'", "x", "'">>, 1)

BasicComparisons(pos) ==
  {Binary(type, FieldNode(f), Literal(raw, pos)) :
     type \in ComparisonTypes, f \in FieldIds, raw \in LiteralRaws}

ParenComparisons(pos) ==
  {Binary(type, Unary("ParenExpression", FieldNode("Age")), Literal(<<"1">>, pos)) :
     type \in ComparisonTypes}

IndexOfComparisons(pos) ==
  {Binary(type, MethodCall("indexof", <<FieldNode("Name"), Quoted>>), Literal(raw, pos)) :
     type \in ComparisonTypes, raw \in NumberRaws}

FunctionNames ==
  {"year", "month", "day", "length", "round", "floor", "ceiling", "tolower", "concat"}

FunctionComparisons(pos) ==
  {Binary(type, MethodCall(m, <<FieldNode("Age")>>), Literal(raw, pos)) :
     type \in {"EqualsExpression", "GreaterThanExpression"}, m \in FunctionNames,
     raw \in NumberRaws}

ArithmeticComparisons(pos) ==
  {Binary(type, Binary(arith, FieldNode("Age"), Literal(raw, pos + 1)), Literal(<<"2">>, pos)) :
     type \in ComparisonTypes, arith \in ArithmeticTypes, raw \in NumberRaws}

ToLower(fieldNode) == MethodCall("tolower", <<fieldNode>>)

MethodCalls ==
  {MethodCall(m, <<fieldNode, Quoted>>) :
     m \in {"contains", "startswith", "endswith", "indexof", "concat", "trim", "geo.distance"},
     fieldNode \in {FieldNode("Name"), ToLower(FieldNode("Name"))}}
  \cup {MethodCall("substringof", <<Quoted, fieldNode>>) :
          fieldNode \in {FieldNode("Name"), ToLower(FieldNode("Name"))}}

InNode(f, raws) ==
  [type |-> "InExpression",
   value |-> [left |-> FieldNode(f),
              right |-> [value |-> [items |-> [i \in 1..Len(raws) |-> Literal(raws[i], i)]]]]]

LeafAsts ==
  BasicComparisons(1) \cup ParenComparisons(1) \cup IndexOfComparisons(1)
    \cup FunctionComparisons(1) \cup ArithmeticComparisons(1) \cup MethodCalls
    \cup {Unary("CommonExpression", m) : m \in MethodCalls}
    \cup {InNode("Age", <<<<"1">>, <<"2">>>>), Identifier("Age")}

\* the operands of the logical nodes
Operands(pos) ==
  {Binary("EqualsExpression", MethodCall(m, <<FieldNode(f)>>), Literal(<<"2">>, pos)) :
     m \in {"year", "month", "length"}, f \in FieldIds}
  \cup {Binary(type, FieldNode(f), Literal(NatText(pos), pos)) :
          type \in {"EqualsExpression", "GreaterOrEqualsExpression", "GreaterThanExpression",
                    "LesserThanExpression", "LesserOrEqualsExpression"},
          f \in FieldIds}
  \cup {Binary("GreaterThanExpression",
                Binary("MulExpression", FieldNode("Age"), Literal(<<"2">>, pos + 2)),
                Literal(NatText(pos), pos))}

LogicalAsts ==
  {Binary(type, l, r) : type \in {"AndExpression", "OrExpression"},
                        l \in Operands(1), r \in Operands(2)}
  \cup {Unary(type, c) : type \in {"NotExpression", "BoolParenExpression"}, c \in Operands(1)}

LowerAsts == LeafAsts \cup LogicalAsts

CaseSensitiveSettings == {"unset", "true", "false"}

InitLower ==
  /\ pc = "lower"
  /\ ast \in LowerAsts
  /\ options \in [caseSensitive : CaseSensitiveSettings]
  /\ filterString = <<>>
  /\ preprocessed = Nil
  /\ lowered = Nil
  /\ result = Nil
  /\ caught = Nil
  /\ thrown = <<>>
  /\ steps = <<>>
  /\ stack = <<>>
  /\ where = Nil
  /\ opt1 = Nil
  /\ opt2 = Nil
  /\ InitIdleBuilder
  /\ calls = <<>>

LowerNode ==
  /\ pc = "lower"
  /\ lowered' = convertNode(ast, options)
  /\ pc' = "lowered"
  /\ UNCHANGED <<filterString, options, preprocessed, ast, result, caught, thrown, steps,
                 optimizerVars, builderVars, calls>>

NextLower == LowerNode

SpecLower == InitLower /\ [][NextLower]_vars

-----------------------------------------------------------------------------
(* Claims about the lowering engine *)

IsBasicComparison(node) ==
  /\ node.type \in ComparisonTypes
  /\ node.value.left.type = "FirstMemberExpression"
  /\ node.value.right.type = "Literal"
  /\ getLiteralValue(node.value.right) # Null

TableOp(type) ==
  CASE type = "EqualsExpression" -> "equals"
    [] type = "NotEqualsExpression" -> "not"
    [] type = "GreaterThanExpression" -> "gt"
    [] type = "GreaterOrEqualsExpression" -> "gte"
    [] type = "LesserThanExpression" -> "lt"
    [] type = "LesserOrEqualsExpression" -> "lte"

PlainFieldName(fieldNode) == fieldNode.value.value.value.value.name

\* C1: a basic comparison `field <cmp> literal` with a plain field and a
\* literal that is not null lowers to exactly {field: {op: value}}, op from
\* the table eq->equals, ne->not, gt->gt, ge->gte, lt->lt, le->lte.
C1_BasicComparison ==
  (pc = "lowered" /\ IsBasicComparison(ast)) =>
     lowered = Ok(Obj1(PlainFieldName(ast.value.left),
                       Obj1(TableOp(ast.type), getLiteralValue(ast.value.right))))

C1_Witness ==
  /\ pc = "lowered"
  /\ IsBasicComparison(ast)
  /\ ast.type = "LesserOrEqualsExpression"
  /\ lowered = Ok(Obj1("Age", Obj1("lte", Num(2))))

IsStringMethod(node) ==
  /\ node.type = "MethodCallExpression"
  /\ node.value.method \in {"contains", "substringof", "startswith", "endswith", "indexof"}

FieldArgument(node) ==
  IF node.value.method = "substringof" THEN node.value.parameters[2]
  ELSE node.value.parameters[1]

IsIndexOfForm(node) ==
  /\ node.type \in ComparisonTypes
  /\ node.value.left.type = "MethodCallExpression"
  /\ node.value.left.value.method = "indexof"
  /\ \/ node.type = "GreaterOrEqualsExpression" /\ getLiteralValue(node.value.right) = Num(0)
     \/ node.type = "EqualsExpression" /\ getLiteralValue(node.value.right) = Num(-1)

\* the nodes the case-sensitivity policy speaks of
IsCasePolicyNode(node) ==
  \/ IsStringMethod(node) /\ FieldArgument(node).type = "FirstMemberExpression"
  \/ IsIndexOfForm(node)

\* the operator object of {field: {...}} or {NOT: {field: {...}}}
OperatorObject(filter) ==
  LET inner == IF HasKey(filter, "NOT") THEN Get(filter, "NOT") ELSE filter
  IN inner.e[1].v

\* C9: for contains, substringof, startswith, endswith (no tolower wrapper)
\* and indexof, standalone or as `indexof ge 0` / `indexof eq -1`, the
\* operator object has mode 'insensitive' exactly when caseSensitive is
\* explicitly false and has no mode key when it is true or unset.
C9_ModeOnlyWhenExplicitlyFalse ==
  (pc = "lowered" /\ IsCasePolicyNode(ast)) =>
     /\ lowered.ok
     /\ IF options.caseSensitive = "false"
        THEN /\ HasKey(OperatorObject(lowered.v), "mode")
             /\ Get(OperatorObject(lowered.v), "mode") = ModeInsensitive
        ELSE ~HasKey(OperatorObject(lowered.v), "mode")

\* the same policy for the method calls alone (handleMethod)
C9_MethodCallsOnly ==
  (pc = "lowered" /\ IsCasePolicyNode(ast) /\ IsStringMethod(ast)) =>
     /\ lowered.ok
     /\ IF options.caseSensitive = "false"
        THEN /\ HasKey(OperatorObject(lowered.v), "mode")
             /\ Get(OperatorObject(lowered.v), "mode") = ModeInsensitive
        ELSE ~HasKey(OperatorObject(lowered.v), "mode")

IsToLowerPrefixSuffix(node) ==
  /\ node.type = "MethodCallExpression"
  /\ node.value.method \in {"startswith", "endswith"}
  /\ isToLowerCall(node.value.parameters[1])
  /\ node.value.parameters[1].value.parameters[1].type = "FirstMemberExpression"

\* C10: startswith/endswith over tolower(field) always emits mode
\* 'insensitive' under the unwrapped field name, whatever caseSensitive is.
C10_ToLowerForcesInsensitive ==
  (pc = "lowered" /\ IsToLowerPrefixSuffix(ast)) =>
     /\ lowered.ok
     /\ Len(lowered.v.e) = 1
     /\ lowered.v.e[1].k = PlainFieldName(ast.value.parameters[1].value.parameters[1])
     /\ HasKey(lowered.v.e[1].v, "mode")
     /\ Get(lowered.v.e[1].v, "mode") = ModeInsensitive

C10_Witness ==
  /\ pc = "lowered"
  /\ IsToLowerPrefixSuffix(ast)
  /\ ast.value.method = "endswith"
  /\ options.caseSensitive = "true"
  /\ lowered = Ok(Obj1("Name", Obj2("endsWith", Str(<<"x">>), "mode", ModeInsensitive)))

\* a comparison of a plain field with a literal, null included
IsFieldLiteralComparison(node) ==
  /\ node.type \in ComparisonTypes
  /\ node.value.left.type = "FirstMemberExpression"
  /\ node.value.right.type = "Literal"

\* C11: a comparison with the null literal lowers to {field: null} for eq
\* and to {field: {not: null}} for ne; the identity form is used for eq and
\* ne only, every other comparison kind lowers to {field: {op: value}}.
C11_NullIdentityOnlyForEqNe ==
  (pc = "lowered" /\ IsFieldLiteralComparison(ast)) =>
     LET field == PlainFieldName(ast.value.left)
         value == getLiteralValue(ast.value.right)
     IN IF value = Null /\ ast.type = "EqualsExpression"
        THEN lowered = Ok(Obj1(field, Null))
        ELSE IF value = Null /\ ast.type = "NotEqualsExpression"
        THEN lowered = Ok(Obj1(field, Obj1("not", Null)))
        ELSE lowered = Ok(Obj1(field, Obj1(TableOp(ast.type), value)))

\* the part of C11 about eq and ne alone
C11_EqNeOnly ==
  (pc = "lowered" /\ IsFieldLiteralComparison(ast)
     /\ getLiteralValue(ast.value.right) = Null
     /\ ast.type \in {"EqualsExpression", "NotEqualsExpression"}) =>
     lowered = Ok(Obj1(PlainFieldName(ast.value.left),
                       IF ast.type = "EqualsExpression" THEN Null ELSE Obj1("not", Null)))

IsCallEq(node, method) ==
  /\ node.type = "EqualsExpression"
  /\ node.value.left.type = "MethodCallExpression"
  /\ node.value.left.value.method = method

CallField(node) == PlainFieldName(node.value.left.value.parameters[1])

\* an AND node of year(f1) eq Y and month(f2) eq M, in either order
IsYearMonthAnd(node) ==
  /\ node.type = "AndExpression"
  /\ \/ IsCallEq(node.value.left, "year") /\ IsCallEq(node.value.right, "month")
     \/ IsCallEq(node.value.left, "month") /\ IsCallEq(node.value.right, "year")

\* {field: {gte: <date>, lt: <date>}}, the merged range of one month
IsMergedMonthRange(x) ==
  /\ IsObj(x) /\ Len(x.e) = 1
  /\ IsObj(x.e[1].v) /\ Keys(x.e[1].v) = <<"gte", "lt">>
  /\ Get(x.e[1].v, "gte").t = "date"
  /\ Get(x.e[1].v, "lt").t = "date"

\* C13: an AND node lowers to the merged year+month range only when its
\* sides are eq comparisons on year(f1) and month(f2) with f1 = f2; when the
\* two calls name different fields no merged range object is produced.
C13_MergeOnlyOnSameField ==
  (pc = "lowered" /\ ast.type = "AndExpression" /\ lowered.ok
     /\ IsMergedMonthRange(lowered.v)) =>
     /\ IsYearMonthAnd(ast)
     /\ CallField(ast.value.left) = CallField(ast.value.right)

\* the merge of year and month on one field
C13_MergeOnSameField ==
  (pc = "lowered" /\ IsYearMonthAnd(ast)
     /\ CallField(ast.value.left) = CallField(ast.value.right)) =>
     /\ lowered.ok
     /\ IsMergedMonthRange(lowered.v)
     /\ Keys(lowered.v) = <<CallField(ast.value.left)>>

IsLowerBound(node) ==
  /\ node.type \in {"GreaterOrEqualsExpression", "GreaterThanExpression"}
  /\ node.value.left.type = "FirstMemberExpression"

IsUpperBound(node) ==
  /\ node.type \in {"LesserOrEqualsExpression", "LesserThanExpression"}
  /\ node.value.left.type = "FirstMemberExpression"

\* an AND node of a ge/gt and a le/lt comparison on one field, in either order
IsRangeAnd(node) ==
  /\ node.type = "AndExpression"
  /\ \/ IsLowerBound(node.value.left) /\ IsUpperBound(node.value.right)
     \/ IsUpperBound(node.value.left) /\ IsLowerBound(node.value.right)
  /\ PlainFieldName(node.value.left.value.left) = PlainFieldName(node.value.right.value.left)

LowerSide(node) == IF IsLowerBound(node.value.left) THEN node.value.left ELSE node.value.right
UpperSide(node) == IF IsUpperBound(node.value.left) THEN node.value.left ELSE node.value.right

\* C14: an AND node of a ge/gt and a le/lt comparison on the same field, in
\* either order, lowers to one object {field: {gte|gt: lower, lte|lt: upper}}
\* with both bounds under the field key and without an AND key.
C14_RangeCoLocated ==
  (pc = "lowered" /\ IsRangeAnd(ast)) =>
     /\ lowered = Ok(Obj1(PlainFieldName(ast.value.left.value.left),
                          Obj2(TableOp(LowerSide(ast).type),
                               getLiteralValue(LowerSide(ast).value.right),
                               TableOp(UpperSide(ast).type),
                               getLiteralValue(UpperSide(ast).value.right))))
     /\ ~HasKey(lowered.v, "AND")

C14_Witness ==
  /\ pc = "lowered"
  /\ IsRangeAnd(ast)
  /\ IsUpperBound(ast.value.left)
  /\ lowered = Ok(Obj1("Age", Obj2("gt", Num(2), "lte", Num(1))))

-----------------------------------------------------------------------------
(* src/converters/index.ts (unnamed/part_005): convert, one call on a      *)
(* string                                                                  *)

MaxClauses == 2

Lit(chars) == <<NumTok(chars)>>
QuotedX == <<QuoteTok(<<"'", "x", "'">>)>>

Comparison(field, word, literal) == <<W(field), SP, W(word), SP>> \o literal
Call(method, args) == <<W(method), P("(")>> \o args \o <<P(")")>>

Clauses ==
  { Comparison("Name", "eq", QuotedX),
    Comparison("Age", "gt", Lit(<<"5">>)),
    Comparison("CreatedAt", "eq", <<DateTok(IsoRaw)>>),
    <<W("Price"), SP, P("*"), SP, NumTok(<<"3">>), SP, W("gt"), SP, NumTok(<<"1", "0">>)>>,
    <<W("Price"), SP, W("mul"), SP, NumTok(<<"2">>), SP, W("gt"), SP, NumTok(<<"1", "0">>)>>,
    Call("length", <<W("Name")>>) \o <<SP, W("gt"), SP, NumTok(<<"5">>)>>,
    Call("month", <<W("CreatedAt")>>) \o <<SP, W("eq"), SP, NumTok(<<"3">>)>>,
    Call("year", <<W("CreatedAt")>>) \o <<SP, W("eq"), SP, NumTok(<<"2", "0", "2", "3">>)>>,
    Call("contains", <<W("Name"), P(",")>> \o QuotedX),
    <<W("Id"), SP, W("in"), SP, P("("), NumTok(<<"1">>), P(","), SP, NumTok(<<"2">>), P(")")>>,
    <<W("owner"), P("/"), W("name"), SP, W("eq"), SP>> \o QuotedX,
    <<W("items"), P("/"), W("any"), P("("), W("i"), P(":"), SP,
      W("i"), P("/"), W("price"), SP, W("gt"), SP, NumTok(<<"5">>), P(")")>>,
    <<W("Name"), SP, W("eq")>> }

\* the clauses cs joined by the connectives js
RECURSIVE Joined(_, _)
Joined(cs, js) ==
  IF Len(cs) = 1 THEN cs[1]
  ELSE cs[1] \o <<SP, W(js[1]), SP>> \o Joined(Tail(cs), Tail(js))

\* an argument that is not a string: the JavaScript value, in place of characters
NotAString(value) == <<[c |-> "value", v |-> value]>>

Undefined == [t |-> "undefined"]

NonStringArguments == {NotAString(v) : v \in {Null, Undefined, Num(0), Num(5), EmptyObj}}

FilterStrings ==
  {<<>>} \cup NonStringArguments \cup UNION {{Joined(cs, js) : cs \in [1..n -> Clauses],
                                       js \in [1..(n - 1) -> {"and", "or"}]} :
                     n \in 1..MaxClauses}

Init ==
  /\ pc = "start"
  /\ filterString \in FilterStrings
  /\ options \in [caseSensitive : CaseSensitiveSettings]
  /\ preprocessed = Nil
  /\ ast = Nil
  /\ lowered = Nil
  /\ result = Nil
  /\ caught = Nil
  /\ thrown = <<>>
  /\ steps = <<>>
  /\ stack = <<>>
  /\ where = Nil
  /\ opt1 = Nil
  /\ opt2 = Nil
  /\ InitIdleBuilder
  /\ calls = <<>>

\* the same, naming the fallback's failure instead
combinedFailureOfFallback(error, fallbackError) ==
  [msg |-> <<"Failed to parse OData filter: ">> \o fallbackError.msg,
   fallback |-> fallbackError.msg]

\* the error convert throws when the fallback failed as well
combinedFailure(error, fallbackError) ==
  [msg |-> <<"Failed to parse OData filter: ">> \o error.msg, fallback |-> fallbackError.msg]

typeofString(argument) == \A i \in 1..Len(argument) : argument[i].c # "value"

\* the same without the test for the empty string
isEmptyOrNotStringTypeOnly(odataFilterString) == ~typeofString(odataFilterString)

\* !odataFilterString || typeof odataFilterString !== 'string'
isEmptyOrNotString(odataFilterString) ==
  odataFilterString = <<>> \/ ~typeofString(odataFilterString)

\* lines 24-30: the guard, then preprocessODataFilter
Preprocess ==
  /\ pc = "start"
  /\ IF isEmptyOrNotString(filterString)
     THEN /\ result' = EmptyObj
          /\ pc' = "returned"
          /\ UNCHANGED <<preprocessed, steps>>
     ELSE /\ preprocessed' = preprocessODataFilter(filterString)
          /\ steps' = Append(steps, "preprocessODataFilter")
          /\ pc' = "parse"
          /\ UNCHANGED result
  /\ UNCHANGED <<filterString, options, ast, lowered, caught, thrown, optimizerVars, builderVars, calls>>

\* line 31: odataParser.filter; a throw enters the catch of line 36
Parse ==
  /\ pc = "parse"
  /\ ast' = odataParserFilter(preprocessed)
  /\ IF ast'.ok
     THEN pc' = "lower" /\ UNCHANGED caught
     ELSE pc' = "catch" /\ caught' = [stage |-> "parse", msg |-> ast'.msg]
  /\ steps' = Append(steps, "odataParser.filter")
  /\ UNCHANGED <<filterString, options, preprocessed, lowered, result, thrown, optimizerVars, builderVars, calls>>

\* line 32: convertNode; a throw enters the same catch
Lower ==
  /\ pc = "lower"
  /\ lowered' = convertNode(ast.v, options)
  /\ IF lowered'.ok
     THEN pc' = "optimize" /\ UNCHANGED caught
     ELSE pc' = "catch" /\ caught' = [stage |-> "convertNode", msg |-> lowered'.msg]
  /\ steps' = Append(steps, "convertNode")
  /\ UNCHANGED <<filterString, options, preprocessed, ast, result, thrown, optimizerVars, builderVars, calls>>

\* line 35: return optimizeOrToIn(result)
OptimizeResult ==
  /\ pc = "optimize"
  /\ result' = optimizeOrToIn(lowered.v)
  /\ steps' = Append(steps, "optimizeOrToIn")
  /\ pc' = "returned"
  /\ UNCHANGED <<filterString, options, preprocessed, ast, lowered, caught, thrown,
                 optimizerVars, builderVars, calls>>

\* lines 38-42: return what the fallback returned, or throw
ReturnOrThrow(parsed) ==
  IF parsed.ok
  THEN /\ result' = parsed.v
       /\ pc' = "returned"
       /\ UNCHANGED thrown
  ELSE /\ thrown' = Append(thrown, combinedFailure(caught, parsed))
       /\ pc' = "thrown"
       /\ UNCHANGED result

\* lines 36-43: the catch block
Fallback ==
  /\ pc = "catch"
  /\ ReturnOrThrow(fallbackParser(filterString, options))
  /\ steps' = Append(steps, "fallbackParser")
  /\ UNCHANGED <<filterString, options, preprocessed, ast, lowered, caught, optimizerVars, builderVars, calls>>

Next == Preprocess \/ Parse \/ Lower \/ OptimizeResult \/ Fallback

Spec == Init /\ [][Next]_vars

-----------------------------------------------------------------------------
(* Claims about convert *)

Called(step) == \E i \in 1..Len(steps) : steps[i] = step

Finished == pc \in {"returned", "thrown"}

FieldWords == {"Name", "Age", "Price", "CreatedAt", "Id", "owner", "items"}

\* the fields the clauses of the input are about
MentionedFields(toks) ==
  {toks[i].s : i \in {j \in 1..Len(toks) : toks[j].c = "w" /\ toks[j].s \in FieldWords}}

RECURSIVE AllKeys(_)
AllKeys(x) ==
  CASE x.t = "obj" ->
         {x.e[i].k : i \in 1..Len(x.e)} \cup UNION {AllKeys(x.e[i].v) : i \in 1..Len(x.e)}
    [] x.t = "arr" -> UNION {AllKeys(x.a[i]) : i \in 1..Len(x.a)}
    [] OTHER -> {}

\* C5: no partial result: when convert returns for a filter string, the
\* returned object accounts for every clause of the input (the field of
\* every clause is a key of it); otherwise convert throws.
C5_NoPartialResult ==
  pc = "returned" =>
     MentionedFields(filterString) \subseteq AllKeys(result)

\* C6: fallbackParser is called only after the parse step failed; an error
\* raised after a successful parse never leads to a fallbackParser call.
C6_FallbackOnlyAfterParseFailure ==
  Called("fallbackParser") => (caught # Nil /\ caught.stage = "parse")

RaisedRawSql ==
  lowered # Nil /\ ~lowered.ok /\ MsgContains(lowered.msg, "requires raw SQL")

\* C7: when lowering raises a requires-raw-SQL error, convert throws an
\* error whose message contains "requires raw SQL" and never returns a
\* filter object.
C7_RawSqlErrorSurfaces ==
  (Finished /\ RaisedRawSql) =>
     /\ pc = "thrown"
     /\ Len(thrown) = 1
     /\ MsgContains(thrown[1].msg, "requires raw SQL")

\* C8: when the primary attempt and the fallback both fail, convert throws
\* exactly one error, whose message contains the primary attempt's message
\* and not the fallback's "Fallback parsing failed".
C8_PrimaryMessageSurfaces ==
  pc = "thrown" =>
     /\ Len(thrown) = 1
     /\ thrown[1].msg = <<"Failed to parse OData filter: ">> \o caught.msg
     /\ ~MsgContains(thrown[1].msg, "Fallback parsing failed")

C8_Witness ==
  /\ pc = "thrown"
  /\ caught.stage = "parse"
  /\ thrown[1].fallback = <<"Fallback parsing failed">>
  /\ thrown[1].msg = <<"Failed to parse OData filter: ", "Unexpected character in filter">>

\* C18: convert called with the empty string or with a value that is not a
\* string (null, undefined, a number, an object) returns {} and does not
\* throw, and neither the parser nor the fallback is invoked.
C18_EmptyOrNotString ==
  ((filterString = <<>> \/ filterString \in NonStringArguments) /\ pc # "start") =>
     /\ pc = "returned"
     /\ result = EmptyObj
     /\ thrown = <<>>
     /\ ~Called("odataParser.filter")
     /\ ~Called("fallbackParser")
     /\ steps = <<>>

C18_Witness ==
  /\ pc = "returned"
  /\ filterString = NotAString(Num(5))
  /\ result = EmptyObj
  /\ steps = <<>>

YearFilter ==
  Call("year", <<W("CreatedAt")>>) \o <<SP, W("eq"), SP, NumTok(<<"2", "0", "2", "3">>)>>

\* the instant an ISO-8601 UTC string of the first day of a month denotes
IsInstant(x, year, month) == x.t = "date" /\ x.ms = <<year, month, 1>>

IsYearRange(x, field, year) ==
  /\ IsObj(x) /\ Keys(x) = <<field>>
  /\ IsObj(Get(x, field)) /\ Keys(Get(x, field)) = <<"gte", "lt">>
  /\ IsInstant(Get(Get(x, field), "gte"), year, 1)
  /\ IsInstant(Get(Get(x, field), "lt"), year + 1, 1)

\* C12: convert("year(CreatedAt) eq 2023") returns {CreatedAt: {gte: s, lt: e}}
\* with s = 1 January 2023 and e = 1 January 2024 (UTC), and both bounds are
\* unchanged in the object returned after optimization.
C12_YearRangeReturned ==
  (filterString = YearFilter /\ Finished) =>
     /\ pc = "returned"
     /\ IsYearRange(result, "CreatedAt", 2023)

\* the range as lowering builds it, before optimization
C12_YearRangeLowered ==
  (filterString = YearFilter /\ lowered # Nil) =>
     /\ lowered.ok
     /\ IsYearRange(lowered.v, "CreatedAt", 2023)

-----------------------------------------------------------------------------
(* convert on the filter strings `Id in (v1, ..., vN)` *)

MaxValues == 3

InLiterals ==
  {<<NumTok(<<"1">>)>>, <<NumTok(<<"2">>)>>, QuotedX, <<W("null")>>, <<DateTok(IsoRaw)>>}

RECURSIVE CommaJoined(_)
CommaJoined(vals) ==
  IF vals = <<>> THEN <<>>
  ELSE IF Len(vals) = 1 THEN vals[1]
  ELSE vals[1] \o <<P(","), SP>> \o CommaJoined(Tail(vals))

InFilter(vals) == <<W("Id"), SP, W("in"), SP, P("(")>> \o CommaJoined(vals) \o <<P(")")>>

InLists == UNION {[1..n -> InLiterals] : n \in 0..MaxValues}

InitIn ==
  /\ pc = "start"
  /\ filterString \in {InFilter(vals) : vals \in InLists}
  /\ options \in [caseSensitive : CaseSensitiveSettings]
  /\ preprocessed = Nil
  /\ ast = Nil
  /\ lowered = Nil
  /\ result = Nil
  /\ caught = Nil
  /\ thrown = <<>>
  /\ steps = <<>>
  /\ stack = <<>>
  /\ where = Nil
  /\ opt1 = Nil
  /\ opt2 = Nil
  /\ InitIdleBuilder
  /\ calls = <<>>

SpecIn == InitIn /\ [][Next]_vars

\* x is the value the literal denotes
IsValueOf(x, literal) ==
  CASE literal[1].c = "n" -> x = Num(DigitsToNat(literal[1].raw))
    [] literal[1].c = "q" -> x = Str(SubSeq(literal[1].raw, 2, Len(literal[1].raw) - 1))
    [] literal[1].c = "d" -> x.t = "date" /\ x.ms = <<2023, 1, 1>>
    [] OTHER -> x = Null

PairwiseDistinct(vals) == \A i, j \in 1..Len(vals) : i # j => vals[i] # vals[j]

\* {Id: {equals: v1}} for one value, {Id: {in: [v1, ..., vN]}} for more
IsInResult(x, vals) ==
  /\ IsObj(x) /\ Keys(x) = <<"Id">>
  /\ IsObj(Get(x, "Id"))
  /\ IF Len(vals) = 1
     THEN /\ Keys(Get(x, "Id")) = <<"equals">>
          /\ IsValueOf(Get(Get(x, "Id"), "equals"), vals[1])
     ELSE /\ Keys(Get(x, "Id")) = <<"in">>
          /\ IsArr(Get(Get(x, "Id"), "in"))
          /\ Len(Get(Get(x, "Id"), "in").a) = Len(vals)
          /\ \A i \in 1..Len(vals) : IsValueOf(Get(Get(x, "Id"), "in").a[i], vals[i])

\* C15: for N >= 2 pairwise distinct literals convert("Id in (v1, ..., vN)")
\* returns {Id: {in: [v1, ..., vN]}} with the values in written order, and
\* for one value it returns {Id: {equals: v1}}.
C15_InRoundTrip ==
  \A vals \in InLists :
     (Len(vals) >= 1 /\ PairwiseDistinct(vals) /\ filterString = InFilter(vals) /\ Finished) =>
        /\ pc = "returned"
        /\ IsInResult(result, vals)

\* the same for lists of numbers and strings only
C15_NumbersAndStrings ==
  \A vals \in InLists :
     (/\ Len(vals) >= 1 /\ PairwiseDistinct(vals)
      /\ \A i \in 1..Len(vals) : vals[i][1].c \in {"n", "q"}
      /\ filterString = InFilter(vals) /\ Finished) =>
        /\ pc = "returned"
        /\ IsInResult(result, vals)

-----------------------------------------------------------------------------
(* convert on the filter strings `Price <op1> k <cmp> T`, op1 written as a *)
(* symbol or as one of the words mul, div, add, sub                        *)

MaxOperand == 3
MaxThreshold == 3

NumberToks(k) == IF k < 0 THEN <<P("-"), NumTok(NatText(-k))>> ELSE <<NumTok(NatText(k))>>

ArithOperands ==
  {NumberToks(k) : k \in (-MaxOperand)..MaxOperand} \cup {<<NumTok(<<"0", ".", "5">>)>>}
ArithThresholds == {NumberToks(t) : t \in (-1)..MaxThreshold}
ArithOperators ==
  {P("*"), P("/"), P("+"), P("-"), W("mul"), W("div"), W("add"), W("sub")}

ArithFilter(opTok, k, cmp, T) ==
  <<W("Price"), SP, opTok, SP>> \o k \o <<SP, W(cmp), SP>> \o T

InitArith ==
  /\ pc = "start"
  /\ filterString \in {ArithFilter(opTok, k, cmp, T) :
                          opTok \in ArithOperators, k \in ArithOperands,
                          cmp \in ComparisonWords, T \in ArithThresholds}
  /\ options \in [caseSensitive : CaseSensitiveSettings]
  /\ preprocessed = Nil
  /\ ast = Nil
  /\ lowered = Nil
  /\ result = Nil
  /\ caught = Nil
  /\ thrown = <<>>
  /\ steps = <<>>
  /\ stack = <<>>
  /\ where = Nil
  /\ opt1 = Nil
  /\ opt2 = Nil
  /\ InitIdleBuilder
  /\ calls = <<>>

SpecArith == InitArith /\ [][Next]_vars

\* the parts of the filter string as written
WrittenOperator == filterString[3].s
IsWordForm == filterString[3].c = "w"
OperandToks == IF IsPunct(filterString[5], "-") THEN SubSeq(filterString, 5, 6)
               ELSE SubSeq(filterString, 5, 5)
WrittenComparison == filterString[5 + Len(OperandToks) + 1].s
ThresholdToks == SubSeq(filterString, 5 + Len(OperandToks) + 3, Len(filterString))
WrittenOperand == parseFloat(Text(OperandToks))
WrittenThreshold == parseFloat(Text(ThresholdToks))

InverseOf(op1, T, k) ==
  CASE op1 \in {"*", "mul"} -> NumDiv(T, k)
    [] op1 \in {"/", "div"} -> NumMul(T, k)
    [] op1 \in {"+", "add"} -> NumSub(T, k)
    [] op1 \in {"-", "sub"} -> NumAdd(T, k)

ApplyOf(op1, x, k) ==
  CASE op1 \in {"*", "mul"} -> NumMul(x, k)
    [] op1 \in {"/", "div"} -> NumDiv(x, k)
    [] op1 \in {"+", "add"} -> NumAdd(x, k)
    [] op1 \in {"-", "sub"} -> NumSub(x, k)

\* {Price: {<key>: t}}, or {Price: {not: {equals: t}}}
IsFieldFilter(x) ==
  /\ IsObj(x) /\ Keys(x) = <<"Price">>
  /\ IsObj(Get(x, "Price")) /\ Len(Get(x, "Price").e) = 1
EmittedKey(x) == Get(x, "Price").e[1].k
EmittedThreshold(x) ==
  LET v == Get(x, "Price").e[1].v
  IN IF IsObj(v) /\ HasKey(v, "equals") THEN Get(v, "equals") ELSE v

\* C16: for `Price op1 k cmp T` with k # 0 the emitted threshold is the
\* inverse operation applied to T (T/k, T*k, T-k, T+k), re-applying op1 with
\* k to it reproduces T, and the emitted operator is the one of cmp.
C16_InversionRoundTrips ==
  (Finished /\ WrittenOperand.n # 0) =>
     /\ pc = "returned"
     /\ IsFieldFilter(result)
     /\ EmittedKey(result) = TableOp(ComparisonTypeOf(WrittenComparison))
     /\ EmittedThreshold(result) = InverseOf(WrittenOperator, WrittenThreshold, WrittenOperand)
     /\ ApplyOf(WrittenOperator, EmittedThreshold(result), WrittenOperand) = WrittenThreshold

\* |x - y| <= num / den
Within(x, y, num, den) ==
  LET diff == NumSub(x, y) IN IsFinite(diff) /\ Abs(diff.n) * den <= num * diff.d

\* a number with at most two decimals
IsHundredths(x) == IsFinite(x) /\ 100 % x.d = 0

\* the strings the fallback pattern matches: unsigned operand and threshold
IsUnsignedForm == WrittenOperand.n > 0 /\ WrittenThreshold.n >= 0

\* C16 as amended: in the word form (primary grammar) the emitted threshold
\* is exactly the inverse operation applied to T and re-applying op1 with k
\* reproduces T; in the symbol form with unsigned k and T (fallback grammar)
\* it is that value rounded to two decimals; the operator is the one of cmp.
C16_InversionUpToRounding ==
  (Finished /\ WrittenOperand.n # 0 /\ (IsWordForm \/ IsUnsignedForm)) =>
     /\ pc = "returned"
     /\ IsFieldFilter(result)
     /\ EmittedKey(result) = TableOp(ComparisonTypeOf(WrittenComparison))
     /\ IF IsWordForm
        THEN /\ EmittedThreshold(result)
                  = InverseOf(WrittenOperator, WrittenThreshold, WrittenOperand)
             /\ ApplyOf(WrittenOperator, EmittedThreshold(result), WrittenOperand)
                  = WrittenThreshold
        ELSE /\ IsHundredths(EmittedThreshold(result))
             /\ Within(EmittedThreshold(result),
                       InverseOf(WrittenOperator, WrittenThreshold, WrittenOperand), 1, 200)

C16_Witness ==
  /\ pc = "returned"
  /\ filterString = ArithFilter(P("*"), NumberToks(3), "le", NumberToks(2))
  /\ Called("fallbackParser")
  /\ result = Obj1("Price", Obj1("lte", Rat(67, 100)))

MaxFieldValue == 3

\* the values of the field the filters are evaluated on
FieldValues == {Num(x) : x \in (-MaxFieldValue)..MaxFieldValue}

\* x <cmp> T
Holds(x, cmp, T) ==
  CASE cmp = "eq" -> x = T
    [] cmp = "ne" -> x # T
    [] cmp = "gt" -> NumLess(T, x)
    [] cmp = "ge" -> NumLess(T, x) \/ x = T
    [] cmp = "lt" -> NumLess(x, T)
    [] cmp = "le" -> NumLess(x, T) \/ x = T

\* a record whose Price is x matches {Price: {<key>: t}}
Satisfies(x, filter) ==
  LET key == EmittedKey(filter)
      operand == Get(filter, "Price").e[1].v
  IN IF key = "not" /\ IsObj(operand) THEN ~OpMatches(x, "equals", Get(operand, "equals"))
     ELSE OpMatches(x, key, operand)

\* C17: the emitted filter is the comparison solved for the field: for every
\* field value x, every k # 0 of either sign and every T, x satisfies the
\* emitted filter exactly when `x op1 k cmp T` is true.
C17_SolvedForField ==
  (Finished /\ WrittenOperand.n # 0) =>
     /\ pc = "returned"
     /\ IsFieldFilter(result)
     /\ \A x \in FieldValues :
          Satisfies(x, result)
            <=> Holds(ApplyOf(WrittenOperator, x, WrittenOperand), WrittenComparison,
                      WrittenThreshold)

\* the same for the word form with a positive operand
C17_PositiveOperand ==
  (Finished /\ IsWordForm /\ WrittenOperand.n > 0) =>
     /\ pc = "returned"
     /\ IsFieldFilter(result)
     /\ \A x \in FieldValues :
          Satisfies(x, result)
            <=> Holds(ApplyOf(WrittenOperator, x, WrittenOperand), WrittenComparison,
                      WrittenThreshold)

-----------------------------------------------------------------------------
(* src/utils/schema-validator.ts: SchemaValidator.

   A Zod schema is a tree: an object has a shape (a sequence of entries
   whose keys are texts), an array has an element, an optional has an inner
   schema, everything else is a scalar.  A path is a sequence of segments,
   each a text (a sequence of fragments, as Text returns). *)

ZodString == [z |-> "string"]
ZodNumber == [z |-> "number"]
ZodOptional(inner) == [z |-> "optional", inner |-> inner]
ZodArray(element) == [z |-> "array", element |-> element]
ZodObject(shape) == [z |-> "object", shape |-> shape]

\* lines 54-60: strip optional, nullable and default wrappers
RECURSIVE unwrapSchema(_)
unwrapSchema(schema) ==
  IF schema.z \in {"optional", "nullable", "default"} THEN unwrapSchema(schema.inner)
  ELSE schema

\* lines 65-87: the kind of a field (the only part of the descriptor that
\* the validator reads)
getFieldInfo(schema) ==
  LET unwrapped == unwrapSchema(schema)
  IN CASE unwrapped.z = "object" -> [type |-> "object"]
       [] unwrapped.z = "array" -> [type |-> "array"]
       [] OTHER -> [type |-> "scalar"]

\* map[key] = value and Object.assign: a key that is present keeps its place
RECURSIVE assign(_, _, _)
assign(entries, key, val) ==
  IF entries = <<>> THEN <<Entry(key, val)>>
  ELSE IF Head(entries).k = key THEN <<Entry(key, val)>> \o Tail(entries)
  ELSE <<Head(entries)>> \o assign(Tail(entries), key, val)

RECURSIVE assignAll(_, _)
assignAll(entries, more) ==
  IF more = <<>> THEN entries
  ELSE assignAll(assign(entries, Head(more).k, Head(more).v), Tail(more))

\* lines 25-49: the flattened map, keyed by the dotted path; the entries of
\* shape from i on are added to map
RECURSIVE buildSchemaMap(_, _), buildShapeMap(_, _, _, _)
buildShapeMap(shape, prefix, i, map) ==
  IF i > Len(shape) THEN map
  ELSE LET fullPath == IF prefix # <<>> THEN prefix \o <<".">> \o shape[i].k ELSE shape[i].k
           unwrappedSchema == unwrapSchema(shape[i].v)
           nested ==
             IF unwrappedSchema.z = "object" THEN buildSchemaMap(unwrappedSchema, fullPath)
             ELSE IF /\ unwrappedSchema.z = "array"
                     /\ unwrapSchema(unwrappedSchema.element).z = "object"
             THEN buildSchemaMap(unwrapSchema(unwrappedSchema.element), fullPath)
             ELSE <<>>
       IN buildShapeMap(shape, prefix, i + 1,
                        assignAll(assign(map, fullPath, getFieldInfo(shape[i].v)), nested))

buildSchemaMap(schema, prefix) ==
  IF schema.z = "object" THEN buildShapeMap(schema.shape, prefix, 1, <<>>) ELSE <<>>

\* lines 18-20: the constructor; the validator is its schemaMap
SchemaValidator(schema) == IF schema = Undefined THEN <<>> ELSE buildSchemaMap(schema, <<>>)

\* Object.keys(this.schemaMap) has key
hasOwnKey(schemaMap, key) == \E i \in 1..Len(schemaMap) : schemaMap[i].k = key

\* the properties every object literal inherits from Object.prototype
ObjectPrototypeNames ==
  {<<"constructor">>, <<"toString">>, <<"toLocaleString">>, <<"valueOf">>,
   <<"hasOwnProperty">>, <<"isPrototypeOf">>, <<"propertyIsEnumerable">>, <<"__proto__">>}

\* this.schemaMap[key] is truthy: the map is an object literal, so the
\* lookup also finds the inherited properties
inSchemaMap(schemaMap, key) == hasOwnKey(schemaMap, key) \/ key \in ObjectPrototypeNames

\* this.schemaMap[key] when it is truthy; an inherited property has no type
fieldInfoOf(schemaMap, key) ==
  IF hasOwnKey(schemaMap, key)
  THEN schemaMap[CHOOSE i \in 1..Len(schemaMap) : schemaMap[i].k = key].v
  ELSE [type |-> "undefined"]

\* path.join(separator)
RECURSIVE join(_, _)
join(path, separator) ==
  IF path = <<>> THEN <<>>
  ELSE IF Len(path) = 1 THEN path[1]
  ELSE path[1] \o <<separator>> \o join(Tail(path), separator)

\* lines 105-126: the loop over the prefixes of path, from the i-th on
RECURSIVE validatePrefixes(_, _, _)
validatePrefixes(schemaMap, path, i) ==
  IF i > Len(path) THEN [isValid |-> TRUE, error |-> <<>>]
  ELSE LET currentPath == join(SubSeq(path, 1, i), ".")
       IN IF ~inSchemaMap(schemaMap, currentPath)
          THEN [isValid |-> FALSE,
                error |-> <<"Field '">> \o currentPath \o <<"' does not exist in schema">>]
          ELSE IF /\ i = Len(path)
                  /\ fieldInfoOf(schemaMap, currentPath).type = "object"
                  /\ ~inSchemaMap(schemaMap, join(path, "."))
          THEN [isValid |-> FALSE,
                error |-> <<"Cannot select object field '">> \o join(path, ".")
                          \o <<"' directly. Use specific sub-fields.">>]
          ELSE validatePrefixes(schemaMap, path, i + 1)

\* lines 92-129
validateFieldPath(schemaMap, path) ==
  IF Len(schemaMap) = 0 THEN [isValid |-> TRUE, error |-> <<>>]
  ELSE IF inSchemaMap(schemaMap, join(path, ".")) THEN [isValid |-> TRUE, error |-> <<>>]
  ELSE validatePrefixes(schemaMap, path, 1)

\* lines 134-149
isCollectionPath(schemaMap, path) ==
  /\ Len(schemaMap) # 0
  /\ \E i \in 1..Len(path) :
       LET currentPath == join(SubSeq(path, 1, i), ".")
       IN /\ inSchemaMap(schemaMap, currentPath)
          /\ fieldInfoOf(schemaMap, currentPath).type = "array"

\* src/errors/schema-validation-error.ts
SchemaValidationError(message, field, operation) ==
  [name |-> "SchemaValidationError", msg |-> message, field |-> field, operation |-> operation]

\* lines 164-176: Nil when nothing is thrown, else the error thrown
validateFieldPathStrict(schemaMap, path, operation) ==
  LET validation == validateFieldPath(schemaMap, path)
  IN IF ~validation.isValid /\ validation.error # <<>>
     THEN SchemaValidationError(<<"Schema validation failed for $", operation, ": ">>
                                  \o validation.error,
                                join(path, "/"), operation)
     ELSE Nil

\* lines 181-183; allowAllFields is "true", "false" or "unset" (undefined)
isStrictValidationEnabled(schemaMap, allowAllFields) ==
  Len(schemaMap) > 0 /\ allowAllFields = "false"

-----------------------------------------------------------------------------
(* src/utils/nested-parser.ts.  The strings of $select and $orderby are
   token sequences like the filter strings; a function that can throw
   returns Ok(value) or Throw(error). *)

Throw(error) == [ok |-> FALSE, error |-> error]

\* SchemaValidationOptions; {} is EmptyOptions
EmptyOptions == [schema |-> Undefined, allowAllFields |-> "unset"]

\* String.prototype.split(separator): the pieces between the separators
RECURSIVE split(_, _)
split(toks, separator) ==
  IF \E i \in 1..Len(toks) : IsPunct(toks[i], separator)
  THEN LET i == Least({k \in 1..Len(toks) : IsPunct(toks[k], separator)})
       IN <<SubSeq(toks, 1, i - 1)>> \o split(SubSeq(toks, i + 1, Len(toks)), separator)
  ELSE <<toks>>

\* str.split('/'): the segments of a path, each a text
splitPath(toks) == LET pieces == split(toks, "/") IN [i \in 1..Len(pieces) |-> Text(pieces[i])]

\* lines 78-105: split at the commas outside parentheses
RECURSIVE splitSelectFields(_, _, _, _)
splitSelectFields(selectString, i, current, parenthesesDepth) ==
  IF i > Len(selectString)
  THEN IF trim(current) # <<>> THEN <<trim(current)>> ELSE <<>>
  ELSE IF IsPunct(selectString[i], "(")
  THEN splitSelectFields(selectString, i + 1, Append(current, selectString[i]),
                         parenthesesDepth + 1)
  ELSE IF IsPunct(selectString[i], ")")
  THEN splitSelectFields(selectString, i + 1, Append(current, selectString[i]),
                         parenthesesDepth - 1)
  ELSE IF IsPunct(selectString[i], ",") /\ parenthesesDepth = 0
  THEN <<trim(current)>> \o splitSelectFields(selectString, i + 1, <<>>, parenthesesDepth)
  ELSE splitSelectFields(selectString, i + 1, Append(current, selectString[i]),
                         parenthesesDepth)

\* lines 110-130: obj with value stored under the keys of path
RECURSIVE setNestedValue(_, _, _)
setNestedValue(obj, path, value) ==
  IF Len(path) = 1 THEN Obj(assign(obj.e, path[1], value))
  ELSE LET key == path[1]
           current == IF HasKey(obj, key) /\ IsObj(Get(obj, key)) THEN Get(obj, key)
                      ELSE EmptyObj
       IN Obj(assign(obj.e, key, setNestedValue(current, Tail(path), value)))

\* /^([^(]+)\((.+)\)$/: the index of the parenthesis that ends the base
\* path, or 0 when the field does not match
nestedMatch(trimmedField) ==
  LET opens == {k \in 1..Len(trimmedField) : IsPunct(trimmedField[k], "(")}
  IN IF /\ opens # {}
        /\ Least(opens) > 1
        /\ Len(trimmedField) >= Least(opens) + 2
        /\ IsPunct(trimmedField[Len(trimmedField)], ")")
     THEN Least(opens) ELSE 0

\* lines 26-73; selectFields is the loop over the fields from the i-th on
RECURSIVE parseNestedSelect(_, _, _), selectFields(_, _, _, _, _)
selectFields(fields, i, opts, contextPath, parsed) ==
  IF i > Len(fields) THEN Ok(parsed)
  ELSE LET trimmedField == trim(fields[i])
           open == nestedMatch(trimmedField)
           basePath == IF open > 0 THEN SubSeq(trimmedField, 1, open - 1) ELSE trimmedField
           pathParts == splitPath(basePath)
           fullPath == contextPath \o pathParts
           validator == SchemaValidator(opts.schema)
           error == IF isStrictValidationEnabled(validator, opts.allowAllFields)
                    THEN validateFieldPathStrict(validator, fullPath, "select")
                    ELSE Nil
       IN IF error # Nil THEN Throw(error)
          ELSE IF open > 0
          THEN LET nestedSelect ==
                     parseNestedSelect(SubSeq(trimmedField, open + 1, Len(trimmedField) - 1),
                                       opts, fullPath)
               IN IF ~nestedSelect.ok THEN nestedSelect
                  ELSE selectFields(fields, i + 1, opts, contextPath,
                                    setNestedValue(parsed, pathParts, nestedSelect.v))
          ELSE selectFields(fields, i + 1, opts, contextPath,
                            setNestedValue(parsed, pathParts, Bool(TRUE)))

parseNestedSelect(selectString, opts, contextPath) ==
  IF selectString = <<>> THEN Ok(EmptyObj)
  ELSE selectFields(splitSelectFields(selectString, 1, <<>>, 0), 1, opts, contextPath, EmptyObj)

\* lines 214-228
RECURSIVE convertNestedSelectToPrisma(_)
convertNestedSelectToPrisma(nestedSelect) ==
  Obj([i \in 1..Len(nestedSelect.e) |->
         IF nestedSelect.e[i].v.t = "bool" THEN nestedSelect.e[i]
         ELSE Entry(nestedSelect.e[i].k,
                    Obj1("select", convertNestedSelectToPrisma(nestedSelect.e[i].v)))])

\* item.split(/\s+/)[0]: the tokens before the first blank
firstPart(item) ==
  LET blanks == {k \in 1..Len(item) : IsSpace(item[k])}
  IN IF blanks = {} THEN item ELSE SubSeq(item, 1, Least(blanks) - 1)

\* item.split(/\s+/)[1]: the tokens between the first run of blanks and the
\* next, <<>> when there is none
secondPart(item) ==
  LET blanks == {k \in 1..Len(item) : IsSpace(item[k])}
  IN IF blanks = {} THEN <<>>
     ELSE firstPart(SubSeq(item, SkipSpaces(item, Least(blanks)), Len(item)))

\* (parts[1]?.toLowerCase() === 'desc') ? 'desc' : 'asc'
directionOf(item) ==
  LET part == secondPart(item)
  IN IF Len(part) = 1 /\ IsWordTok(part[1]) /\ toLowerCase(part[1].s) = "desc"
     THEN Str(<<"desc">>) ELSE Str(<<"asc">>)

\* lines 147-161: the loop over the items from the i-th on
RECURSIVE orderItems(_, _, _, _)
orderItems(items, i, opts, parsed) ==
  IF i > Len(items) THEN Ok(parsed)
  ELSE LET fieldPath == firstPart(trim(items[i]))
           validator == SchemaValidator(opts.schema)
           error == IF isStrictValidationEnabled(validator, opts.allowAllFields)
                    THEN validateFieldPathStrict(validator, splitPath(fieldPath), "orderby")
                    ELSE Nil
           flatPath == join(splitPath(fieldPath), ".")
       IN IF error # Nil THEN Throw(error)
          ELSE orderItems(items, i + 1, opts,
                          Obj(assign(parsed.e, flatPath, directionOf(trim(items[i])))))

\* lines 136-164
parseNestedOrderBy(orderByString, opts) ==
  IF orderByString = <<>> THEN Ok(EmptyObj)
  ELSE orderItems(SplitOnComma(orderByString), 1, opts, EmptyObj)

\* /(\w+(?:\/\w+)*)\/(any|all)\((\w+):\s*([^)]+)\)/g with the path from i to
\* last: the condition runs to the first ")" and is not empty
AnyAllMatchAt(toks, i, last) ==
  IF /\ last + 5 <= Len(toks)
     /\ IsPunct(toks[last + 1], "/")
     /\ toks[last + 2].c = "w" /\ toks[last + 2].s \in {"any", "all"}
     /\ IsPunct(toks[last + 3], "(")
     /\ IsWordTok(toks[last + 4])
     /\ IsPunct(toks[last + 5], ":")
  THEN LET closers == {k \in (last + 6)..Len(toks) : IsPunct(toks[k], ")")}
       IN IF closers = {} \/ Least(closers) = last + 6 THEN Nil
          ELSE LET from == SkipSpaces(toks, last + 6)
               IN [path |-> PathWords(toks, i, last),
                   type |-> toks[last + 2].s,
                   variable |-> toks[last + 4].s,
                   condition |-> SubSeq(toks,
                                        IF from < Least(closers) THEN from
                                        ELSE Least(closers) - 1,
                                        Least(closers) - 1),
                   end |-> Least(closers)]
  ELSE Nil

\* the ends of the paths from i that give a match; the longest is taken
AnyAllEnds(toks, i) ==
  IF ~IsWordTok(toks[i]) THEN {}
  ELSE {last \in i..PathEnd(toks, i) :
          (last - i) % 2 = 0 /\ AnyAllMatchAt(toks, i, last) # Nil}

\* lines 182-206: the loop over the matches at or after pos
RECURSIVE collectionFilters(_, _, _, _)
collectionFilters(toks, pos, opts, filters) ==
  LET starts == {i \in pos..Len(toks) : AnyAllEnds(toks, i) # {}}
  IN IF starts = {} THEN Ok(filters)
     ELSE LET i == Least(starts)
              ends == AnyAllEnds(toks, i)
              match == AnyAllMatchAt(toks, i, CHOOSE e \in ends : \A o \in ends : o <= e)
              pathParts == [k \in 1..Len(match.path) |-> <<match.path[k]>>]
              validator == SchemaValidator(opts.schema)
              invalid == validateFieldPathStrict(validator, pathParts, "filter")
              error ==
                IF ~isStrictValidationEnabled(validator, opts.allowAllFields) THEN Nil
                ELSE IF invalid # Nil THEN invalid
                ELSE IF ~isCollectionPath(validator, pathParts)
                THEN SchemaValidationError(
                       <<"Schema validation failed for $filter: Field '">>
                         \o join(pathParts, "/")
                         \o <<"' is not a collection and cannot be used with ",
                              match.type, "()">>,
                       join(pathParts, "/"), "filter")
                ELSE Nil
          IN IF error # Nil THEN Throw(error)
             ELSE collectionFilters(toks, match.end + 1, opts,
                                    Append(filters, [type |-> match.type,
                                                     variable |-> match.variable,
                                                     condition |-> match.condition,
                                                     path |-> match.path]))

\* lines 169-209
parseCollectionFilters(filter, opts) ==
  IF filter = <<>> THEN Ok(<<>>) ELSE collectionFilters(filter, 1, opts, <<>>)

-----------------------------------------------------------------------------
(* src/adapters/prisma-query-builder.ts: PrismaQueryBuilder.buildQuery *)

\* lines 47-51 of prisma.ts: what the fallback returned, or the throw
fallbackOrThrow(error, fallback) ==
  IF fallback.ok THEN fallback ELSE Err(combinedFailure(error, fallback).msg)

\* lines 43-52: the optimized result, or the catch block
optimizedOrFallback(converted, odataFilterString, opts) ==
  IF converted.ok THEN Ok(optimizeOrToIn(converted.v))
  ELSE fallbackOrThrow(converted, fallbackParser(odataFilterString, opts))

\* line 40: convertNode on what the parser returned
convertParsed(parsed, opts) == IF parsed.ok THEN convertNode(parsed.v, opts) ELSE parsed

\* PrismaAdapter.convert as one call: Ok(where) or Err(message)
convert(odataFilterString, opts) ==
  IF isEmptyOrNotString(odataFilterString) THEN Ok(EmptyObj)
  ELSE optimizedOrFallback(
         convertParsed(odataParserFilter(preprocessODataFilter(odataFilterString)), opts),
         odataFilterString, opts)

\* an Error that is not a SchemaValidationError
Error(message) == [name |-> "Error", msg |-> message, field |-> <<>>, operation |-> ""]

\* lines 32-42: the constructor; an option is "unset" when it is not given
PrismaQueryBuilder(opts) ==
  [adapterOptions |-> [caseSensitive |-> opts.caseSensitive],
   schemaOptions |-> [schema |-> opts.schema,
                      allowAllFields |-> IF opts.allowAllFields = "unset" THEN "true"
                                         ELSE opts.allowAllFields],
   enableNestedQueries |-> IF opts.enableNestedQueries = "unset" THEN "true"
                           ELSE opts.enableNestedQueries]

\* part_013 lines 237-251: the condition under the keys of the path
nestedCollectionWhere(filter, conditionWhere) ==
  IF ~conditionWhere.ok THEN conditionWhere
  ELSE Ok(buildNestedWhere(filter.path,
                           Obj1(IF filter.type = "any" THEN "some" ELSE "every",
                                conditionWhere.v)))

\* part_013 lines 233-252: Ok(where) or Err(message)
convertCollectionFilterToPrisma(filter, adapterOptions) ==
  nestedCollectionWhere(filter,
                        convert(RemoveVariable(filter.condition, filter.variable),
                                adapterOptions))

\* Object.keys(w).length > 0
hasKeys(w) == Len(Entries(w)) > 0

\* lines 65-72: the base where merged with the collection wheres
mergedWhere(q, baseWhere, collectionWheres) ==
  IF \E i \in 1..Len(collectionWheres) : ~collectionWheres[i].ok
  THEN Throw(Error(collectionWheres[Least({i \in 1..Len(collectionWheres) :
                                            ~collectionWheres[i].ok})].msg))
  ELSE IF Len(collectionWheres) = 1 /\ ~hasKeys(baseWhere)
  THEN Ok(Obj(assign(q.e, "where", collectionWheres[1].v)))
  ELSE Ok(Obj(assign(q.e, "where",
                     Obj1("AND",
                          Arr(SelectSeq(<<baseWhere>>
                                          \o [i \in 1..Len(collectionWheres) |->
                                                collectionWheres[i].v],
                                        hasKeys))))))

\* lines 58-75: the where for the collection filters found
collectionWhere(this, q, baseWhere, found) ==
  IF ~found.ok THEN found
  ELSE IF Len(found.v) = 0 THEN Ok(Obj(assign(q.e, "where", baseWhere)))
  ELSE mergedWhere(q, baseWhere,
                   [i \in 1..Len(found.v) |->
                      convertCollectionFilterToPrisma(found.v[i], this.adapterOptions)])

\* lines 54-76: the where for the base where that convert returned
nestedWhere(this, filter, q, baseWhere) ==
  IF ~baseWhere.ok THEN Throw(Error(baseWhere.msg))
  ELSE IF this.enableNestedQueries # "true" THEN Ok(Obj(assign(q.e, "where", baseWhere.v)))
  ELSE collectionWhere(this, q, baseWhere.v, parseCollectionFilters(filter, EmptyOptions))

\* lines 51-76: Ok(query) with where set, or Throw(error)
whereOf(this, filter, q) ==
  IF filter = <<>> THEN Ok(q)
  ELSE nestedWhere(this, filter, q, convert(filter, this.adapterOptions))

\* lines 78-86: $top and $skip; Undefined when the parameter is not given
pagedOf(top, skip, q) ==
  LET taken == IF top # Undefined /\ top.n > 0 THEN assign(q.e, "take", top) ELSE q.e
  IN Obj(IF skip # Undefined /\ skip.n > 0 THEN assign(taken, "skip", skip) ELSE taken)

\* lines 128-140
RECURSIVE parseOrderByLegacy(_, _, _)
parseOrderByLegacy(items, i, parsed) ==
  IF i > Len(items) THEN parsed
  ELSE parseOrderByLegacy(items, i + 1,
                          Obj(assign(parsed.e, Text(firstPart(trim(items[i]))),
                                     directionOf(trim(items[i])))))

\* lines 145-156
RECURSIVE parseSelectLegacy(_, _, _)
parseSelectLegacy(fields, i, parsed) ==
  IF i > Len(fields) THEN parsed
  ELSE parseSelectLegacy(fields, i + 1,
                         IF trim(fields[i]) # <<>>
                         THEN Obj(assign(parsed.e, Text(trim(fields[i])), Bool(TRUE)))
                         ELSE parsed)

\* lines 182-186: setOrderBy
setOrderBy(q, orderBy) ==
  Obj(assign(q.e, "orderBy",
             Arr([i \in 1..Len(orderBy.e) |-> Obj1(orderBy.e[i].k, orderBy.e[i].v)])))

\* lines 88-102: Ok(query) with orderBy set, or Throw(error)
orderedOf(this, orderby, q) ==
  IF orderby = <<>> THEN Ok(q)
  ELSE LET orderBy == IF this.enableNestedQueries = "true"
                      THEN parseNestedOrderBy(orderby, this.schemaOptions)
                      ELSE Ok(parseOrderByLegacy(SplitOnComma(orderby), 1, EmptyObj))
       IN IF ~orderBy.ok THEN orderBy
          ELSE IF hasKeys(orderBy.v) THEN Ok(setOrderBy(q, orderBy.v))
          ELSE Ok(q)

\* lines 104-120: Ok(query) with select set, or Throw(error)
selectedOf(this, select, q) ==
  IF select = <<>> THEN Ok(q)
  ELSE IF this.enableNestedQueries = "true"
  THEN LET nestedSelect == parseNestedSelect(select, this.schemaOptions, <<>>)
       IN IF ~nestedSelect.ok THEN nestedSelect
          ELSE IF hasKeys(nestedSelect.v)
          THEN Ok(Obj(assign(q.e, "select", convertNestedSelectToPrisma(nestedSelect.v))))
          ELSE Ok(q)
  ELSE LET selected == parseSelectLegacy(SplitOnComma(select), 1, EmptyObj)
       IN IF hasKeys(selected) THEN Ok(Obj(assign(q.e, "select", selected))) ELSE Ok(q)

\* what a step of buildQuery leaves: the query, or the error thrown to the caller
Continue(outcome, next) ==
  IF outcome.ok
  THEN /\ query' = outcome.v
       /\ pc' = next
       /\ UNCHANGED thrown
  ELSE /\ thrown' = Append(thrown, outcome.error)
       /\ pc' = "thrown"
       /\ UNCHANGED query

buildQueryUnchanged ==
  UNCHANGED <<filterString, options, preprocessed, ast, lowered, result, caught, steps,
              optimizerVars, builder, params, calls>>

\* lines 48-76: createEmptyQuery and $filter
BuildWhere ==
  /\ pc = "buildQuery"
  /\ Continue(whereOf(builder, params.filter, EmptyObj), "page")
  /\ buildQueryUnchanged

\* lines 78-86: $top and $skip
BuildPage ==
  /\ pc = "page"
  /\ Continue(Ok(pagedOf(params.top, params.skip, query)), "orderby")
  /\ buildQueryUnchanged

\* lines 88-102: $orderby
BuildOrderBy ==
  /\ pc = "orderby"
  /\ Continue(orderedOf(builder, params.orderby, query), "select")
  /\ buildQueryUnchanged

\* lines 104-122: $select and the return
BuildSelect ==
  /\ pc = "select"
  /\ Continue(selectedOf(builder, params.select, query), "built")
  /\ buildQueryUnchanged

\* the same, keeping every key of the find query
createCountQueryCopied(findQuery) == findQuery

\* lines 199-205: createCountQuery
createCountQuery(findQuery) ==
  IF HasKey(findQuery, "where") /\ Truthy(Get(findQuery, "where"))
  THEN Obj1("where", Get(findQuery, "where"))
  ELSE EmptyObj

\* base-query-builder.ts lines 78-83: buildPaginationQuery, after its
\* buildQuery has returned
BuildCount ==
  /\ pc = "built"
  /\ result' = Obj2("findQuery", query, "countQuery", createCountQuery(query))
  /\ pc' = "paginated"
  /\ UNCHANGED <<filterString, options, preprocessed, ast, lowered, caught, thrown, steps,
                 optimizerVars, builderVars, calls>>

NextBuild == BuildWhere \/ BuildPage \/ BuildOrderBy \/ BuildSelect \/ BuildCount

-----------------------------------------------------------------------------
(* buildQuery, one call on a builder and its parameters *)

TestSchema ==
  ZodObject(<<Entry(<<"id">>, ZodString),
              Entry(<<"name">>, ZodString),
              Entry(<<"profile">>,
                    ZodOptional(ZodObject(<<Entry(<<"bio">>, ZodOptional(ZodString))>>))),
              Entry(<<"orders">>, ZodArray(ZodObject(<<Entry(<<"total">>, ZodNumber)>>)))>>)

BuilderOptions ==
  [caseSensitive : {"unset"},
   schema : {Undefined, TestSchema},
   allowAllFields : {"unset", "true", "false"},
   enableNestedQueries : {"unset", "true", "false"}]

\* the path a/b/c as tokens, and as the segments it names
RECURSIVE PathToks(_)
PathToks(words) ==
  IF Len(words) = 1 THEN <<W(words[1])>>
  ELSE <<W(words[1]), P("/")>> \o PathToks(Tail(words))

PathOf(words) == [i \in 1..Len(words) |-> <<words[i]>>]

\* `<path> eq 'x'`
PathEqualsX(words) == PathToks(words) \o <<SP, W("eq"), SP>> \o QuotedX

\* `<path>/any(o: o/total gt 1)`
AnyOf(words) ==
  PathToks(words)
    \o <<P("/"), W("any"), P("("), W("o"), P(":"), SP, W("o"), P("/"), W("total"), SP,
         W("gt"), SP, NumTok(<<"1">>), P(")")>>

\* the values of $filter, each with the paths it references and the paths
\* it applies any/all to
Filters ==
  { [text |-> <<>>, paths |-> {}, lambdas |-> {}],
    [text |-> PathEqualsX(<<"name">>), paths |-> {PathOf(<<"name">>)}, lambdas |-> {}],
    [text |-> PathEqualsX(<<"invalidField">>),
     paths |-> {PathOf(<<"invalidField">>)}, lambdas |-> {}],
    [text |-> <<W("name"), SP, W("eq")>>, paths |-> {PathOf(<<"name">>)}, lambdas |-> {}],
    [text |-> PathEqualsX(<<"profile", "invalidField">>),
     paths |-> {PathOf(<<"profile", "invalidField">>)}, lambdas |-> {}],
    [text |-> AnyOf(<<"orders">>),
     paths |-> {PathOf(<<"orders">>), PathOf(<<"orders", "total">>)},
     lambdas |-> {PathOf(<<"orders">>)}],
    [text |-> AnyOf(<<"invalidCollection">>),
     paths |-> {PathOf(<<"invalidCollection">>), PathOf(<<"invalidCollection", "total">>)},
     lambdas |-> {PathOf(<<"invalidCollection">>)}],
    [text |-> AnyOf(<<"name">>),
     paths |-> {PathOf(<<"name">>), PathOf(<<"name", "total">>)},
     lambdas |-> {PathOf(<<"name">>)}] }

\* the values of $select, each with the paths it references
Selects ==
  { [text |-> <<>>, paths |-> {}],
    [text |-> <<W("id"), P(","), W("name")>>,
     paths |-> {PathOf(<<"id">>), PathOf(<<"name">>)}],
    [text |-> <<W("id"), P(","), W("invalidField")>>,
     paths |-> {PathOf(<<"id">>), PathOf(<<"invalidField">>)}],
    [text |-> <<W("id"), P(","), W("profile"), P("/"), W("bio")>>,
     paths |-> {PathOf(<<"id">>), PathOf(<<"profile", "bio">>)}],
    [text |-> <<W("id"), P(","), W("profile"), P("("), W("bio"), P(","),
                W("invalidField"), P(")")>>,
     paths |-> {PathOf(<<"id">>), PathOf(<<"profile">>), PathOf(<<"profile", "bio">>),
                PathOf(<<"profile", "invalidField">>)}] }

\* the values of $orderby, each with the paths it references
OrderBys ==
  { [text |-> <<>>, paths |-> {}],
    [text |-> <<W("name"), SP, W("desc")>>, paths |-> {PathOf(<<"name">>)}],
    [text |-> <<W("invalidField"), SP, W("desc")>>, paths |-> {PathOf(<<"invalidField">>)}],
    [text |-> <<W("name"), SP, W("desc"), P(","), SP,
                W("profile"), P("/"), W("invalidField"), SP, W("asc")>>,
     paths |-> {PathOf(<<"name">>), PathOf(<<"profile", "invalidField">>)}] }

Tops == {Undefined, Num(0), Num(2)}
Skips == {Undefined, Num(1)}

Params ==
  [filter : {f.text : f \in Filters},
   top : Tops,
   skip : Skips,
   orderby : {o.text : o \in OrderBys},
   select : {s.text : s \in Selects}]

InitBuild ==
  /\ pc = "buildQuery"
  /\ InitIdleConvert
  /\ stack = <<>>
  /\ where = Nil
  /\ opt1 = Nil
  /\ opt2 = Nil
  /\ builder \in {PrismaQueryBuilder(opts) : opts \in BuilderOptions}
  /\ params \in Params
  /\ query = Nil
  /\ calls = <<>>

SpecBuild == InitBuild /\ [][NextBuild]_vars

-----------------------------------------------------------------------------
(* Claims about buildQuery *)

Built == pc \in {"built", "thrown"}

\* the schema a path leads to from schema, Nil when it leads nowhere
RECURSIVE Resolve(_, _)
Resolve(schema, path) ==
  LET inner == unwrapSchema(schema)
      object == IF inner.z = "array" THEN unwrapSchema(inner.element) ELSE inner
  IN IF path = <<>> THEN inner
     ELSE IF object.z = "object" /\ \E i \in 1..Len(object.shape) : object.shape[i].k = path[1]
     THEN Resolve(object.shape[CHOOSE i \in 1..Len(object.shape) :
                                  object.shape[i].k = path[1]].v,
                  Tail(path))
     ELSE Nil

InSchema(schema, path) == Resolve(schema, path) # Nil

IsCollection(schema, path) == InSchema(schema, path) /\ Resolve(schema, path).z = "array"

Strict == builder.schemaOptions.schema # Undefined /\ builder.schemaOptions.allowAllFields = "false"

FilterGiven == CHOOSE f \in Filters : f.text = params.filter
SelectGiven == CHOOSE s \in Selects : s.text = params.select
OrderByGiven == CHOOSE o \in OrderBys : o.text = params.orderby

Unknown(paths) == {p \in paths : ~InSchema(builder.schemaOptions.schema, p)}

\* the paths of an operation that strict validation has to reject
Offending(operation) ==
  CASE operation = "filter" ->
         Unknown(FilterGiven.paths)
           \cup {p \in FilterGiven.lambdas : ~IsCollection(builder.schemaOptions.schema, p)}
    [] operation = "select" -> Unknown(SelectGiven.paths)
    [] operation = "orderby" -> Unknown(OrderByGiven.paths)

Operations == {"filter", "select", "orderby"}

SchemaErrors == {i \in 1..Len(thrown) : thrown[i].name = "SchemaValidationError"}

\* the errors convert threw through buildQuery
ConvertErrors == {i \in 1..Len(thrown) : thrown[i].name = "Error"}

\* C20: buildQuery throws a SchemaValidationError, carrying the offending
\* field path in .field and the operation in .operation, exactly when a
\* schema is supplied, allowAllFields is false, and $filter, $select or
\* $orderby references a path that is not in the schema or applies any/all
\* to a path that is not a collection.
C20_SchemaErrorExactlyWhenStrictAndInvalid ==
  Built =>
    /\ SchemaErrors # {} <=> (Strict /\ \E op \in Operations : Offending(op) # {})
    /\ \A i \in SchemaErrors :
         /\ thrown[i].operation \in Operations
         /\ thrown[i].field \in {join(p, "/") : p \in Offending(thrown[i].operation)}

\* with no schema, or with allowAllFields true, no SchemaValidationError
C20_NeverWhenNotStrict == (Built /\ ~Strict) => SchemaErrors = {}

\* $select and $orderby are validated as stated when nested queries are
\* enabled and the filter converts
C20_SelectAndOrderByValidated ==
  (Built /\ builder.enableNestedQueries = "true" /\ ConvertErrors = {}) =>
    /\ SchemaErrors # {}
         <=> (Strict /\ \E op \in {"select", "orderby"} : Offending(op) # {})
    /\ \A i \in SchemaErrors :
         /\ thrown[i].operation \in {"select", "orderby"}
         /\ thrown[i].field \in {join(p, "/") : p \in Offending(thrown[i].operation)}

\* C21: the countQuery of buildPaginationQuery has no key but where, which
\* is findQuery.where when the find query has one; take, skip, orderBy and
\* select are never in it.
C21_CountQueryOnlyWhere ==
  pc = "paginated" =>
    LET findQuery == Get(result, "findQuery")
        countQuery == Get(result, "countQuery")
    IN /\ \A i \in 1..Len(countQuery.e) : countQuery.e[i].k = "where"
       /\ HasKey(findQuery, "where")
            => HasKey(countQuery, "where")
               /\ Get(countQuery, "where") = Get(findQuery, "where")
       /\ ~HasKey(findQuery, "where") => countQuery = EmptyObj

C21_Witness ==
  /\ pc = "paginated"
  /\ \A key \in {"where", "take", "skip", "orderBy", "select"} :
       HasKey(Get(result, "findQuery"), key)
  /\ Get(result, "countQuery") = Obj1("where", Get(query, "where"))

-----------------------------------------------------------------------------
(* convert called several times in a row by one caller *)

MaxCalls == 3

CallFilters ==
  { Comparison("Name", "eq", QuotedX),
    Call("contains", <<W("Name"), P(",")>> \o QuotedX),
    <<W("Price"), SP, P("*"), SP, NumTok(<<"3">>), SP, W("gt"), SP, NumTok(<<"1", "0">>)>>,
    <<W("Name"), SP, W("eq")>>,
    Call("concat", <<W("Name"), P(",")>> \o QuotedX) }

InitCalls ==
  /\ pc = "idle"
  /\ InitIdleConvert
  /\ stack = <<>>
  /\ where = Nil
  /\ opt1 = Nil
  /\ opt2 = Nil
  /\ InitIdleBuilder
  /\ calls = <<>>

\* a call of convert: its parameters are bound and its locals are new
Invoke ==
  /\ pc = "idle"
  /\ Len(calls) < MaxCalls
  /\ filterString' \in CallFilters
  /\ options' \in [caseSensitive : {"true", "false"}]
  /\ preprocessed' = Nil
  /\ ast' = Nil
  /\ lowered' = Nil
  /\ result' = Nil
  /\ caught' = Nil
  /\ steps' = <<>>
  /\ pc' = "start"
  /\ UNCHANGED <<thrown, optimizerVars, builderVars, calls>>

\* the same, taking the error of the throw before the last when there is one
outcomeOfEarlierThrow(at, returned, errors) ==
  IF at = "returned" THEN Ok(returned)
  ELSE Err(errors[IF Len(errors) > 1 THEN Len(errors) - 1 ELSE Len(errors)].msg)

\* lines 35-42: what the caller gets, the value returned or the error thrown
outcomeOf(at, returned, errors) ==
  IF at = "returned" THEN Ok(returned) ELSE Err(errors[Len(errors)].msg)

\* the caller receives the outcome of the call
Return ==
  /\ pc \in {"returned", "thrown"}
  /\ calls' = Append(calls, [filterString |-> filterString, options |-> options,
                             outcome |-> outcomeOf(pc, result, thrown)])
  /\ pc' = "idle"
  /\ UNCHANGED <<filterString, options, preprocessed, ast, lowered, result, caught, thrown,
                 steps, optimizerVars, builderVars>>

NextCalls == Invoke \/ Preprocess \/ Parse \/ Lower \/ OptimizeResult \/ Fallback \/ Return

SpecCalls == InitCalls /\ [][NextCalls]_vars

-----------------------------------------------------------------------------
(* Claims about the AND case of convertNode *)

\* one of the two merges of the AND case returns an object for the node
MergeApplies(node) ==
  LET yearMonth == OrElse(tryHandleYearMonth(node.value.left, node.value.right),
                          tryHandleYearMonth(node.value.right, node.value.left))
      dateRange == OrElse(tryHandleDateRange(node.value.left, node.value.right),
                          tryHandleDateRange(node.value.right, node.value.left))
  IN \/ (yearMonth.ok /\ yearMonth.v # Nil)
     \/ (dateRange.ok /\ dateRange.v # Nil)

LeftAlone == convertNode(ast.value.left, options)
RightAlone == convertNode(ast.value.right, options)

AndWithoutMerge ==
  /\ pc = "lowered"
  /\ ast.type = "AndExpression"
  /\ ~MergeApplies(ast)
  /\ LeftAlone.ok
  /\ RightAlone.ok

\* the left operand of a comparison is an arithmetic expression
IsArithmeticComparison(node) ==
  node.type \in ComparisonTypes /\ node.value.left.type \in ArithmeticTypes

\* C23: an AND node to which neither merge applies and whose operands each
\* lower on their own lowers to {AND: [lower(left), lower(right)]}, the
\* operands in left-right order.
C23_AndOfLowerableOperands ==
  AndWithoutMerge => lowered = Ok(Obj1("AND", Arr(<<LeftAlone.v, RightAlone.v>>)))

\* the same for the AND nodes without an arithmetic comparison
C23_WithoutArithmeticOperand ==
  (/\ AndWithoutMerge
   /\ ~IsArithmeticComparison(ast.value.left)
   /\ ~IsArithmeticComparison(ast.value.right))
    => lowered = Ok(Obj1("AND", Arr(<<LeftAlone.v, RightAlone.v>>)))

\* an AND of an arithmetic lower bound and an upper bound throws
C23_ArithmeticLowerBoundThrows ==
  (/\ AndWithoutMerge
   /\ IsArithmeticComparison(ast.value.left)
   /\ ast.value.right.type \in {"LesserThanExpression", "LesserOrEqualsExpression"})
    => ~lowered.ok

-----------------------------------------------------------------------------
(* src/utils/fallback.ts: fallbackParser, one pattern at a time *)

\* collectionPattern.exec(filterString): the leftmost match, or Nil
collectionMatch(toks) ==
  LET starts == {i \in 1..Len(toks) : CollectionEnds(toks, i) # {}}
  IN IF starts = {} THEN Nil
     ELSE CollectionMatchAt(toks, Least(starts),
                            CHOOSE e \in CollectionEnds(toks, Least(starts)) :
                              \A o \in CollectionEnds(toks, Least(starts)) : o <= e)

\* what the collection branch returns or throws for its match m
collectionBranch(m, conditionWhere) ==
  IF ~conditionWhere.ok THEN conditionWhere
  ELSE Ok(buildNestedWhere(m.path,
            Obj1(IF m.type = "any" THEN "some" ELSE "every", conditionWhere.v)))

collectionResult(m) ==
  collectionBranch(m, parseSimpleCondition(RemoveVariable(m.condition, m.variable)))

\* nestedFieldPattern.exec(filterString): the leftmost match, or Nil
nestedFieldMatch(toks) ==
  LET starts == {i \in 1..Len(toks) :
                   /\ IsWordTok(toks[i]) /\ PathEnd(toks, i) > i
                   /\ OpAfter(toks, PathEnd(toks, i)) # Nil}
  IN IF starts = {} THEN Nil
     ELSE [path |-> PathWords(toks, Least(starts), PathEnd(toks, Least(starts))),
           op |-> OpAfter(toks, PathEnd(toks, Least(starts)))]

nestedFieldResult(m) ==
  IF prismaOp(m.op.comparison) = ""
  THEN Err(<<"Unsupported comparison operator: ", m.op.comparison>>)
  ELSE Ok(buildNestedWhere(m.path, Obj1(prismaOp(m.op.comparison), parseValue(m.op.valueStr))))

\* arithmeticPattern.exec(filterString): the leftmost match, or Nil
arithmeticMatch(toks) ==
  LET starts == {i \in 1..Len(toks) : ArithmeticMatchAt(toks, i) # Nil}
  IN IF starts = {} THEN Nil ELSE ArithmeticMatchAt(toks, Least(starts))

\* the switch on the operator: the threshold solved for the field
resultValue(operator, operandNum, targetNum) ==
  CASE operator = "*" -> NumDiv(targetNum, operandNum)
    [] operator = "/" -> NumMul(targetNum, operandNum)
    [] operator = "+" -> NumSub(targetNum, operandNum)
    [] operator = "-" -> NumAdd(targetNum, operandNum)

arithmeticResult(m) ==
  IF prismaOp(m.comparison) = ""
  THEN Err(<<"Unsupported comparison operator: ", m.comparison>>)
  ELSE Ok(Obj1(m.field,
               Obj1(prismaOp(m.comparison),
                    roundTo2(resultValue(m.operator, parseFloatOrNaN(m.operand),
                                         parseFloatOrNaN(m.target))))))

\* inPattern.exec(filterString): the leftmost match with its field, or Nil
inMatch(toks) ==
  IF InMatches(toks) = {} THEN Nil
  ELSE [field |-> toks[Least(InMatches(toks))].s,
        at |-> InMatchAt(toks, Least(InMatches(toks)))]

valueList(pieces) == Arr([n \in 1..Len(pieces) |-> NumberOrText(trim(pieces[n]))])

inResult(toks, m) ==
  Ok(Obj1(m.field,
          Obj1("in", valueList(SplitOnComma(SubSeq(toks, m.at.open + 1, m.at.close - 1))))))

\* the pattern whose block follows the block of a pattern in the function
nextPatternArithmeticFirst(pattern) ==
  CASE pattern = "collectionPattern" -> "arithmeticPattern"
    [] pattern = "arithmeticPattern" -> "nestedFieldPattern"
    [] pattern = "nestedFieldPattern" -> "inPattern"

nextPattern(pattern) ==
  CASE pattern = "collectionPattern" -> "nestedFieldPattern"
    [] pattern = "nestedFieldPattern" -> "arithmeticPattern"
    [] pattern = "arithmeticPattern" -> "inPattern"

fallbackUnchanged ==
  UNCHANGED <<filterString, options, preprocessed, ast, lowered, caught, thrown,
              optimizerVars, builderVars, calls>>

\* if (collectionMatch) { ... return ... }
TryCollection ==
  /\ pc = "collectionPattern"
  /\ steps' = Append(steps, pc)
  /\ IF collectionMatch(filterString) # Nil
     THEN /\ result' = collectionResult(collectionMatch(filterString))
          /\ pc' = "fallbackDone"
     ELSE /\ pc' = nextPattern(pc)
          /\ UNCHANGED result
  /\ fallbackUnchanged

\* if (nestedMatch) { ... return ... }
TryNestedField ==
  /\ pc = "nestedFieldPattern"
  /\ steps' = Append(steps, pc)
  /\ IF nestedFieldMatch(filterString) # Nil
     THEN /\ result' = nestedFieldResult(nestedFieldMatch(filterString))
          /\ pc' = "fallbackDone"
     ELSE /\ pc' = nextPattern(pc)
          /\ UNCHANGED result
  /\ fallbackUnchanged

\* if (arithmeticMatch) { ... return ... }
TryArithmetic ==
  /\ pc = "arithmeticPattern"
  /\ steps' = Append(steps, pc)
  /\ IF arithmeticMatch(filterString) # Nil
     THEN /\ result' = arithmeticResult(arithmeticMatch(filterString))
          /\ pc' = "fallbackDone"
     ELSE /\ pc' = nextPattern(pc)
          /\ UNCHANGED result
  /\ fallbackUnchanged

\* if (inMatch) { ... return ... } throw new Error('Fallback parsing failed')
TryIn ==
  /\ pc = "inPattern"
  /\ steps' = Append(steps, pc)
  /\ result' = IF inMatch(filterString) # Nil
               THEN inResult(filterString, inMatch(filterString))
               ELSE Err(<<"Fallback parsing failed">>)
  /\ pc' = "fallbackDone"
  /\ fallbackUnchanged

NextFallback == TryCollection \/ TryNestedField \/ TryArithmetic \/ TryIn

\* the filter strings given to fallbackParser
LambdaOf(pathToks, word, variable) ==
  pathToks \o <<P("/"), W(word), P("("), W(variable), P(":"), SP,
                W(variable), P("/"), W("x"), SP, W("eq"), SP, NumTok(<<"1">>), P(")")>>

FallbackFragments ==
  {LambdaOf(<<W("items")>>, "any", "v"),
   LambdaOf(<<W("items")>>, "ANY", "v"),
   LambdaOf(<<W("owner"), P("/"), W("items")>>, "all", "o"),
   LambdaOf(<<W("owner"), P("/"), W("items")>>, "All", "o"),
   <<W("items"), P("/"), W("all"), P("("), W("v"), P(":"), SP, W("v"), P(")")>>,
   <<W("a"), P("/"), W("b"), SP, W("eq"), SP, NumTok(<<"1">>)>>,
   <<W("a"), P("/"), W("b"), SP, W("EQ"), SP, NumTok(<<"1">>)>>,
   <<W("Price"), SP, P("*"), SP, NumTok(<<"2">>), SP, W("gt"), SP, NumTok(<<"1">>)>>,
   <<W("Id"), SP, W("in"), SP, P("("), NumTok(<<"1">>), P(","), SP, NumTok(<<"2">>), P(")")>>,
   <<W("Name"), SP, W("eq")>>,
   <<W("Name"), SP, W("eq"), SP, QuoteTok(<<"'", "x", "'">>)>>}

FallbackFilters ==
  FallbackFragments
  \cup {l \o <<SP, W("and"), SP>> \o r : l, r \in FallbackFragments}

InitFallback ==
  /\ pc = "collectionPattern"
  /\ filterString \in FallbackFilters
  /\ options = [caseSensitive |-> "unset"]
  /\ preprocessed = Nil
  /\ ast = Nil
  /\ lowered = Nil
  /\ result = Nil
  /\ caught = Nil
  /\ thrown = <<>>
  /\ steps = <<>>
  /\ stack = <<>>
  /\ where = Nil
  /\ opt1 = Nil
  /\ opt2 = Nil
  /\ InitIdleBuilder
  /\ calls = <<>>

SpecFallback == InitFallback /\ [][NextFallback]_vars

PatternOrder ==
  <<"collectionPattern", "nestedFieldPattern", "arithmeticPattern", "inPattern">>

PatternMatches(pattern, toks) ==
  CASE pattern = "collectionPattern" -> collectionMatch(toks) # Nil
    [] pattern = "nestedFieldPattern" -> nestedFieldMatch(toks) # Nil
    [] pattern = "arithmeticPattern" -> arithmeticMatch(toks) # Nil
    [] pattern = "inPattern" -> inMatch(toks) # Nil

ProducedBy(pattern, toks) ==
  CASE pattern = "collectionPattern" -> collectionResult(collectionMatch(toks))
    [] pattern = "nestedFieldPattern" -> nestedFieldResult(nestedFieldMatch(toks))
    [] pattern = "arithmeticPattern" -> arithmeticResult(arithmeticMatch(toks))
    [] pattern = "inPattern" -> inResult(toks, inMatch(toks))

Matching(toks) == {k \in 1..Len(PatternOrder) : PatternMatches(PatternOrder[k], toks)}

\* C24: the patterns are consulted in the order collection lambda, nested
\* field comparison, arithmetic comparison, in-list; the outcome is the one
\* of the first pattern that matches and no later pattern is consulted; when
\* no pattern matches the generic "Fallback parsing failed" error is thrown.
C24_FirstMatchingPattern ==
  /\ \E k \in 0..Len(PatternOrder) : steps = SubSeq(PatternOrder, 1, k)
  /\ pc = "fallbackDone" =>
       IF Matching(filterString) = {}
       THEN steps = PatternOrder /\ result = Err(<<"Fallback parsing failed">>)
       ELSE /\ steps = SubSeq(PatternOrder, 1, Least(Matching(filterString)))
            /\ result = ProducedBy(PatternOrder[Least(Matching(filterString))], filterString)

\* a string that matches the nested field pattern and the arithmetic pattern
C24_Witness ==
  /\ pc = "fallbackDone"
  /\ Matching(filterString) = {2, 3}
  /\ steps = <<"collectionPattern", "nestedFieldPattern">>
  /\ result.ok

\* the patterns taken one at a time give what fallbackParser gives
FallbackAgrees == pc = "fallbackDone" => result = fallbackParser(filterString, options)

-----------------------------------------------------------------------------
(* The fallback arithmetic branch against handleArithmeticComparison *)

WordOf(symbol) ==
  CASE symbol = "*" -> "mul"
    [] symbol = "/" -> "div"
    [] symbol = "+" -> "add"
    [] symbol = "-" -> "sub"

\* the filter string with its arithmetic operator written as a word
AsWordForm(toks) == [toks EXCEPT ![3] = W(WordOf(toks[3].s))]

\* what the primary path lowers the word form to
PrimaryLowering ==
  convertParsed(odataParserFilter(preprocessODataFilter(AsWordForm(filterString))), options)

\* a symbol form the fallback pattern matches, with an inverted threshold of
\* at most two decimals
FallbackArithmeticCase ==
  /\ Finished
  /\ ~IsWordForm
  /\ Called("fallbackParser")
  /\ ~IsPunct(OperandToks[1], "-")
  /\ ~IsPunct(ThresholdToks[1], "-")
  /\ IsHundredths(InverseOf(WrittenOperator, WrittenThreshold, WrittenOperand))

\* C25: for the same field, arithmetic operator, operand, comparison (all
\* six) and a threshold whose inverted threshold has at most two decimals,
\* the fallback arithmetic branch and handleArithmeticComparison emit the
\* same filter object.
C25_FallbackAgreesWithPrimary ==
  FallbackArithmeticCase => (pc = "returned" /\ PrimaryLowering = Ok(result))

\* the same for the comparisons other than ne
C25_AgreeExceptNe ==
  (FallbackArithmeticCase /\ WrittenComparison # "ne")
    => (pc = "returned" /\ PrimaryLowering = Ok(result))

\* for ne the two objects differ and match the same field values
C25_NeSameMatches ==
  (FallbackArithmeticCase /\ WrittenComparison = "ne") =>
    /\ pc = "returned"
    /\ PrimaryLowering.ok
    /\ result = Obj1("Price", Obj1("not", EmittedThreshold(result)))
    /\ PrimaryLowering.v = Obj1("Price", Obj1("not", Obj1("equals", EmittedThreshold(result))))
    /\ \A x \in FieldValues : Satisfies(x, result) <=> Satisfies(x, PrimaryLowering.v)

-----------------------------------------------------------------------------
(* The collection branch of fallbackParser *)

\* x nests one single-key object per segment of the path, and the value at
\* the deepest segment is deepest
RECURSIVE NestedUnder(_, _, _)
NestedUnder(x, path, deepest) ==
  IF path = <<>> THEN x = deepest
  ELSE /\ IsObj(x)
       /\ Keys(x) = <<Head(path)>>
       /\ NestedUnder(Get(x, Head(path)), Tail(path), deepest)

LambdaMatch == collectionMatch(filterString)

\* the lowering of the condition with the `v/` prefix stripped
LambdaCondition ==
  parseSimpleCondition(RemoveVariable(LambdaMatch.condition, LambdaMatch.variable))

QuantifierKey == IF toLowerCase(LambdaMatch.type) = "any" THEN "some" ELSE "every"

LambdaCase ==
  /\ pc = "fallbackDone"
  /\ LambdaMatch # Nil
  /\ LambdaCondition.ok

\* C26: for an input matched by the collection-lambda pattern the result
\* nests one single-key object per path segment, and the value at the
\* deepest segment is {some: C} for any and {every: C} for all, in whatever
\* letter case the keyword is written, C the lowering of the condition.
C26_QuantifierAtDeepestSegment ==
  LambdaCase =>
    /\ result.ok
    /\ LambdaMatch.path # <<>>
    /\ NestedUnder(result.v, LambdaMatch.path, Obj1(QuantifierKey, LambdaCondition.v))

\* the same for the keyword written in lower case
C26_LowerCaseKeyword ==
  (LambdaCase /\ LambdaMatch.type \in {"any", "all"}) =>
    /\ result.ok
    /\ LambdaMatch.path # <<>>
    /\ NestedUnder(result.v, LambdaMatch.path, Obj1(QuantifierKey, LambdaCondition.v))

\* any written with a capital letter gives every
C26_CapitalAnyGivesEvery ==
  (LambdaCase /\ LambdaMatch.type = "ANY") =>
    /\ result.ok
    /\ NestedUnder(result.v, LambdaMatch.path, Obj1("every", LambdaCondition.v))

-----------------------------------------------------------------------------
(* SchemaValidator on its own: a validator is constructed from a schema    *)
(* and asked about one path                                                *)

MaxPathLen == 2

NestedSchema ==
  ZodObject(<<Entry(<<"id">>, ZodString),
              Entry(<<"profile">>,
                    ZodObject(<<Entry(<<"bio">>,
                                      ZodObject(<<Entry(<<"total">>, ZodNumber)>>))>>)),
              Entry(<<"orders">>, ZodArray(ZodString))>>)

ValidatorSchemas == {Undefined, TestSchema, NestedSchema}

Segments == {"id", "profile", "bio", "orders", "total", "constructor"}

ValidatorPaths ==
  UNION {[1..n -> {<<word>> : word \in Segments}] : n \in 0..MaxPathLen}

InitValidator ==
  /\ pc = "new"
  /\ params \in [schema : ValidatorSchemas, path : ValidatorPaths]
  /\ builder = Nil
  /\ query = Nil
  /\ InitIdleConvert
  /\ stack = <<>>
  /\ where = Nil
  /\ opt1 = Nil
  /\ opt2 = Nil
  /\ calls = <<>>

validatorUnchanged ==
  UNCHANGED <<filterString, options, preprocessed, ast, lowered, caught, thrown, steps,
              optimizerVars, params, query, calls>>

\* new SchemaValidator(schema)
Construct ==
  /\ pc = "new"
  /\ builder' = SchemaValidator(params.schema)
  /\ pc' = "constructed"
  /\ UNCHANGED result
  /\ validatorUnchanged

\* validator.validateFieldPath(path)
ValidateFieldPath ==
  /\ pc = "constructed"
  /\ result' = validateFieldPath(builder, params.path)
  /\ pc' = "validated"
  /\ UNCHANGED builder
  /\ validatorUnchanged

\* validator.isCollectionPath(path)
IsCollectionPath ==
  /\ pc = "constructed"
  /\ result' = Bool(isCollectionPath(builder, params.path))
  /\ pc' = "answered"
  /\ UNCHANGED builder
  /\ validatorUnchanged

NextValidator == Construct \/ ValidateFieldPath \/ IsCollectionPath

SpecValidator == InitValidator /\ [][NextValidator]_vars

\* the first i segments of the path joined by '.'
PrefixOf(path, i) == join(SubSeq(path, 1, i), ".")

AllPrefixesAreKeys(schemaMap, path) ==
  \A i \in 1..Len(path) : hasOwnKey(schemaMap, PrefixOf(path, i))

\* every dotted prefix of a key of the map is a key of the map
PrefixClosed(schemaMap) ==
  \A n \in 1..Len(schemaMap) :
    \A i \in 1..Len(schemaMap[n].k) :
      schemaMap[n].k[i] = "." => hasOwnKey(schemaMap, SubSeq(schemaMap[n].k, 1, i - 1))

\* C27: with a non-empty schema validateFieldPath(path) returns isValid =
\* true exactly when every non-empty prefix of the path, the full path
\* included, is a key of the schema map; the schema map is prefix-closed.
C27_ValidExactlyWhenPrefixesAreKeys ==
  /\ (pc # "new" /\ builder # Nil) => PrefixClosed(builder)
  /\ (pc = "validated" /\ Len(builder) # 0)
       => (result.isValid <=> AllPrefixesAreKeys(builder, params.path))

\* the same for the paths that are not the name of an inherited property
C27_NotAnInheritedName ==
  /\ (pc # "new" /\ builder # Nil) => PrefixClosed(builder)
  /\ (pc = "validated" /\ Len(builder) # 0 /\ join(params.path, ".") \notin ObjectPrototypeNames)
       => (result.isValid <=> AllPrefixesAreKeys(builder, params.path))

\* the name of an inherited property is a valid path of every schema
C27_InheritedNameIsValid ==
  (pc = "validated" /\ Len(builder) # 0 /\ params.path = <<<<"constructor">>>>)
    => (result.isValid /\ ~hasOwnKey(builder, <<"constructor">>))

\* the path itself is a key of the map with an array descriptor
ResolvesToArray(schemaMap, path) ==
  /\ hasOwnKey(schemaMap, join(path, "."))
  /\ fieldInfoOf(schemaMap, join(path, ".")).type = "array"

\* C28: isCollectionPath(path) returns true exactly when the path itself
\* resolves to an array descriptor of the schema map, and false when it
\* resolves to a scalar or object descriptor or to nothing.
C28_TrueExactlyForArrayPaths ==
  pc = "answered" => (result = Bool(TRUE) <=> ResolvesToArray(builder, params.path))

\* the same for the paths of one segment
C28_SingleSegment ==
  (pc = "answered" /\ Len(params.path) = 1)
    => (result = Bool(TRUE) <=> ResolvesToArray(builder, params.path))

\* a path below a collection is answered true whatever it resolves to
C28_TrueBelowACollection ==
  (pc = "answered" /\ Len(params.path) = 2 /\ ResolvesToArray(builder, <<params.path[1]>>))
    => result = Bool(TRUE)

-----------------------------------------------------------------------------
(* The frame of optimizeOrToIn *)

\* an OR node of x that optimize replaced by an in or equals check
RewrittenTo(x, y) == HasKey(x, "OR") /\ ~HasKey(y, "OR")

\* y is x outside the rewritten OR nodes: the same keys in the same order,
\* the same list lengths, and the same value wherever x has a string, a
\* number, a boolean, null or a date
RECURSIVE SameOutsideRewrittenOr(_, _)
SameOutsideRewrittenOr(x, y) ==
  IF IsObj(x)
  THEN \/ RewrittenTo(x, y)
       \/ /\ IsObj(y)
          /\ Keys(y) = Keys(x)
          /\ \A i \in 1..Len(x.e) : SameOutsideRewrittenOr(x.e[i].v, y.e[i].v)
  ELSE IF IsArr(x)
  THEN /\ IsArr(y)
       /\ Len(y.a) = Len(x.a)
       /\ \A i \in 1..Len(x.a) : SameOutsideRewrittenOr(x.a[i], y.a[i])
  ELSE y = x

RECURSIVE HasDate(_)
HasDate(x) ==
  IF IsObj(x) THEN \E i \in 1..Len(x.e) : HasDate(x.e[i].v)
  ELSE IF IsArr(x) THEN \E i \in 1..Len(x.a) : HasDate(x.a[i])
  ELSE x.t = "date"

\* C29: every field key, operator key and operator value (string, number,
\* boolean, null, date) of x that is not part of an OR node rewritten to
\* in/equals appears in optimize(x) with the value it has in x, and x is
\* not changed by the call.
C29_UnchangedOutsideRewrittenOr ==
  pc # "build" => (SameOutsideRewrittenOr(where, opt1) /\ where = stack[1])

\* the same for the filter objects without a date
C29_WithoutDates ==
  (pc # "build" /\ ~HasDate(where))
    => (SameOutsideRewrittenOr(where, opt1) /\ where = stack[1])

\* a date operand outside an OR node comes back as an empty object
C29_DateBecomesEmptyObject ==
  (pc # "build" /\ where = Obj1("a", Obj1("equals", DateA1)))
    => opt1 = Obj1("a", Obj1("equals", EmptyObj))

-----------------------------------------------------------------------------
(* src/utils/odata-parser.ts: calculatePagination, and                     *)
(* processPaginationResult of src/adapters/base-query-builder.ts           *)

\* Math.floor and Math.ceil of a finite number
MathFloor(x) == IF IsFinite(x) THEN Num(x.n \div x.d) ELSE x
MathCeil(x) == IF IsFinite(x) THEN Num(-((-x.n) \div x.d)) ELSE x

\* the same with hasNext computed with <=
calculatePaginationInclusive(total, skip, take) ==
  IF take = Undefined
  THEN [hasNext |-> FALSE, hasPrevious |-> NumLess(Num(0), skip)]
  ELSE [hasNext |-> ~NumLess(total, NumAdd(skip, take)),
        hasPrevious |-> NumLess(Num(0), skip),
        totalPages |-> MathCeil(NumDiv(total, take)),
        currentPage |-> NumAdd(MathFloor(NumDiv(skip, take)), Num(1)),
        pageSize |-> take]

calculatePagination(total, skip, take) ==
  IF take = Undefined
  THEN [hasNext |-> FALSE, hasPrevious |-> NumLess(Num(0), skip)]
  ELSE [hasNext |-> NumLess(NumAdd(skip, take), total),
        hasPrevious |-> NumLess(Num(0), skip),
        totalPages |-> MathCeil(NumDiv(total, take)),
        currentPage |-> NumAdd(MathFloor(NumDiv(skip, take)), Num(1)),
        pageSize |-> take]

\* params.$skip || 0
skipOrZero(skip) == IF skip = Undefined \/ ~Truthy(skip) THEN Num(0) ELSE skip

MaxTotal == 7
MaxSkip == 6
MaxTake == 3

PageParams ==
  [total : {Num(k) : k \in 0..MaxTotal},
   skip : {Undefined} \cup {Num(k) : k \in 0..MaxSkip},
   top : {Undefined} \cup {Num(k) : k \in 1..MaxTake},
   count : {Undefined, Bool(TRUE)}]

InitPagination ==
  /\ pc = "counted"
  /\ params \in PageParams
  /\ builder = Nil
  /\ query = Nil
  /\ InitIdleConvert
  /\ stack = <<>>
  /\ where = Nil
  /\ opt1 = Nil
  /\ opt2 = Nil
  /\ calls = <<>>

\* processPaginationResult(data, total, params): the metadata of the
\* result, and count when $count is given
ProcessPaginationResult ==
  /\ pc = "counted"
  /\ result' = [pagination |-> calculatePagination(params.total, skipOrZero(params.skip),
                                                   params.top),
                count |-> IF Truthy(params.count) THEN params.total ELSE Undefined]
  /\ pc' = "processed"
  /\ UNCHANGED <<filterString, options, preprocessed, ast, lowered, caught, thrown, steps,
                 optimizerVars, builderVars, calls>>

NextPagination == ProcessPaginationResult

SpecPagination == InitPagination /\ [][NextPagination]_vars

\* the arguments of the call of calculatePagination, as integers
TotalGiven == params.total.n
SkipGiven == skipOrZero(params.skip).n
TakeGiven == params.top.n

PagedCase == pc = "processed" /\ params.top # Undefined

\* ceil(total / take) and floor(skip / take) + 1 for integers, take >= 1
CeilOfQuotient(a, b) == CHOOSE q \in 0..a : q * b >= a /\ (q = 0 \/ (q - 1) * b < a)
FloorOfQuotient(a, b) == CHOOSE q \in 0..a : q * b <= a /\ (q + 1) * b > a

FourFormulas ==
  /\ result.pagination.hasPrevious = (SkipGiven > 0)
  /\ result.pagination.hasNext = (SkipGiven + TakeGiven < TotalGiven)
  /\ result.pagination.totalPages = Num(CeilOfQuotient(TotalGiven, TakeGiven))
  /\ result.pagination.currentPage = Num(FloorOfQuotient(SkipGiven, TakeGiven) + 1)

HasNextIsPageBelowLast ==
  result.pagination.hasNext
    <=> NumLess(result.pagination.currentPage, result.pagination.totalPages)

\* C30: for every total >= 0, skip >= 0 and take >= 1, hasPrevious =
\* (skip > 0), hasNext = (skip + take < total), totalPages =
\* ceil(total / take), currentPage = floor(skip / take) + 1, and hasNext is
\* true exactly when currentPage < totalPages.
C30_MetadataSelfConsistent ==
  PagedCase => (FourFormulas /\ HasNextIsPageBelowLast)

\* C30 as amended: the four formulas hold for every total >= 0, skip >= 0
\* and take >= 1, and hasNext is true exactly when currentPage < totalPages
\* whenever skip is a multiple of take.
C30_ConsistentWhenSkipAligned ==
  PagedCase => (/\ FourFormulas
                /\ (SkipGiven % TakeGiven = 0) => HasNextIsPageBelowLast)

\* the second of three pages of three
C30_Witness ==
  /\ PagedCase
  /\ TotalGiven = 7 /\ SkipGiven = 3 /\ TakeGiven = 3
  /\ result.pagination.hasNext
  /\ result.pagination.currentPage = Num(2)
  /\ result.pagination.totalPages = Num(3)

====
